---- MODULE Spec2Model ----
(***************************************************************************)
(* Dispatcher: workspace stores (projects/tree, terminal sessions, split   *)
(* layouts), the App-level handlers that drive them, and the OSC 7770      *)
(* chunk reassembly of the terminal bridge.                                *)
(*                                                                         *)
(* Identifiers are UUIDs in the program (generateId = crypto.randomUUID).  *)
(* Here every id is the ordinal of its creation: project ids and terminal  *)
(* ids are drawn from two counters that never hand out a value twice.  A   *)
(* JavaScript object keeps its string keys in insertion order, every key   *)
(* of projects / sessions / layouts is inserted when its id is fresh, so   *)
(* the iteration order of those objects is the ascending order of ids.     *)
(***************************************************************************)
EXTENDS Integers, Sequences, FiniteSets, TLC

\* ------------------------------------------------------------------ bounds
MaxProjects  == 2
MaxTerminals == 3
MaxSegments  == 2
MaxPanes     == 2
MaxChunks    == 2
MaxMounts    == 2
MaxLayoutIds == 4

\* ------------------------------------------------------------------ values
Null == 0
ProjectIds  == 1..MaxProjects
TerminalIds == 1..MaxTerminals
Directions  == {"horizontal", "vertical"}
Positions   == {"before", "after"}

NoNode       == <<"none", 0>>
RootGroupId(p) == <<"root", p>>
TabNodeId(t)   == <<"node", t>>

NoLayout == [type |-> "none"]

VARIABLES
  projects,          \* useProjectStore.projects : id -> Project
  nodes,             \* useProjectStore.nodes    : id -> TreeNode
  activeProjectId,   \* useProjectStore.activeProjectId
  projectOrder,      \* useProjectStore.projectOrder
  sessions,          \* useTerminalStore.sessions : id -> TerminalSession
  activeTerminalId,  \* useTerminalStore.activeTerminalId
  layouts,           \* useLayoutStore.layouts : tab root terminalId -> LayoutNode
  nextProjectId,     \* generateId(): next unused project ordinal
  nextTerminalId,    \* generateId(): next unused terminal ordinal
  stream,            \* PTY output of one terminal, as bytes
  fed,               \* number of bytes of stream already delivered to channel.onmessage
  oscPartials,       \* oscPartials.get(tid): stashed partial OSC ("" when absent)
  emitted,           \* concatenation of the cleaned data handed to batchedWrite
  writeBuffers,      \* writeBuffers.get(tid): data waiting for the animation frame
  writeRafs,         \* writeRafs.has(tid): an animation frame is requested
  written,           \* what xterm.write received so far
  hookStates,        \* hookStates.get(tid): the HookState of the terminal
  ptyWrites,         \* the writeTerminal calls of the step just taken
  hookEvent,         \* the callback that ran last, with the data it received,
                     \* and the time since the last chunk and the last injection
  bridge             \* the maps of useTerminalBridge, for several terminals

storeVars == <<projects, nodes, activeProjectId, projectOrder, sessions,
               activeTerminalId, layouts, nextProjectId, nextTerminalId>>
channelVars == <<stream, fed, oscPartials, emitted, writeBuffers, writeRafs, written>>
hookVars  == <<hookStates, ptyWrites, hookEvent>>
oscVars   == <<channelVars, hookVars, bridge>>
vars      == <<projects, nodes, activeProjectId, projectOrder, sessions,
               activeTerminalId, layouts, nextProjectId, nextTerminalId,
               stream, fed, oscPartials, emitted, writeBuffers, writeRafs, written,
               hookStates, ptyWrites, hookEvent, bridge>>

\* ----------------------------------------------------------- small helpers
Put(f, k, v) == [x \in (DOMAIN f) \cup {k} |-> IF x = k THEN v ELSE f[x]]
Del(f, k)    == [x \in (DOMAIN f) \ {k} |-> f[x]]
Has(f, k)    == k \in DOMAIN f
EmptyMap     == [x \in {} |-> 0]

Last(s) == s[Len(s)]

Contains(s, e) == \E i \in 1..Len(s) : s[i] = e

\* Array.prototype.indexOf, 1-based; 0 stands for -1
IndexOf(s, e) ==
  IF Contains(s, e) THEN CHOOSE i \in 1..Len(s) : s[i] = e /\ \A j \in 1..(i-1) : s[j] # e
  ELSE 0

\* Array.prototype.filter((x) => x !== e)
Without(s, e) == SelectSeq(s, LAMBDA x : x # e)

\* Array.prototype.splice(at, 0, e) with a 0-based insert index at
Splice(s, at, e) == SubSeq(s, 1, at) \o <<e>> \o SubSeq(s, at + 1, Len(s))

\* Object.keys(obj) for an object whose keys are creation ordinals
RECURSIVE ObjectKeysOf(_)
ObjectKeysOf(S) ==
  IF S = {} THEN <<>>
  ELSE LET m == CHOOSE x \in S : \A y \in S : x <= y
       IN <<m>> \o ObjectKeysOf(S \ {m})
ObjectKeys(obj) == ObjectKeysOf(DOMAIN obj)

\* ------------------------------------------------------------ layoutUtils.ts
InitialRatio == 50     \* ratio: 0.5, kept in percent

createLeaf(terminalId) == [type |-> "terminal", terminalId |-> terminalId]

\* splitAtTerminal that looks at the root only and never descends into a split
splitAtTerminal_rootOnly(root, targetTerminalId, newTerminalId, direction) ==
  IF root.type = "terminal" /\ root.terminalId = targetTerminalId
  THEN [type |-> "split", direction |-> direction, ratio |-> InitialRatio,
        first |-> root, second |-> createLeaf(newTerminalId)]
  ELSE root

RECURSIVE splitAtTerminal(_, _, _, _)
splitAtTerminal(root, targetTerminalId, newTerminalId, direction) ==
  IF root.type = "terminal"
  THEN IF root.terminalId = targetTerminalId
       THEN [type |-> "split", direction |-> direction, ratio |-> InitialRatio,
             first |-> root, second |-> createLeaf(newTerminalId)]
       ELSE root
  ELSE [root EXCEPT
          !.first  = splitAtTerminal(root.first, targetTerminalId, newTerminalId, direction),
          !.second = splitAtTerminal(root.second, targetTerminalId, newTerminalId, direction)]

\* returns NoLayout where the source returns null
RECURSIVE removeFromLayout(_, _)
removeFromLayout(root, targetTerminalId) ==
  IF root.type = "terminal"
  THEN IF root.terminalId = targetTerminalId THEN NoLayout ELSE root
  ELSE LET first  == removeFromLayout(root.first, targetTerminalId)
           second == removeFromLayout(root.second, targetTerminalId)
       IN IF first = NoLayout /\ second = NoLayout THEN NoLayout
          ELSE IF first = NoLayout THEN second
          ELSE IF second = NoLayout THEN first
          ELSE [root EXCEPT !.first = first, !.second = second]

\* The id of a split node is modelled by the node's place in its tree, the
\* sequence of "first"/"second" steps from the root: ids are unique, so the
\* test root.id === splitId picks out one node.
RECURSIVE SplitIds(_)
SplitIds(root) ==
  IF root.type = "terminal" THEN {}
  ELSE {<<>>} \cup {<<"first">> \o p : p \in SplitIds(root.first)}
              \cup {<<"second">> \o p : p \in SplitIds(root.second)}

RECURSIVE updateRatio(_, _, _)
updateRatio(root, splitId, newRatio) ==
  IF root.type = "terminal" THEN root
  ELSE IF splitId = <<>> THEN [root EXCEPT !.ratio = newRatio]
  ELSE IF Head(splitId) = "first"
       THEN [root EXCEPT !.first = updateRatio(root.first, Tail(splitId), newRatio)]
       ELSE [root EXCEPT !.second = updateRatio(root.second, Tail(splitId), newRatio)]

RECURSIVE findTerminalIds(_)
findTerminalIds(root) ==
  IF root.type = "terminal" THEN <<root.terminalId>>
  ELSE findTerminalIds(root.first) \o findTerminalIds(root.second)

\* returns Null where the source returns null
RECURSIVE findSiblingTerminalId(_, _)
findSiblingTerminalId(root, targetTerminalId) ==
  IF root.type = "terminal" THEN Null
  ELSE LET firstIds  == findTerminalIds(root.first)
           secondIds == findTerminalIds(root.second)
       IN IF root.first.type = "terminal" /\ root.first.terminalId = targetTerminalId
          THEN secondIds[1]
          ELSE IF root.second.type = "terminal" /\ root.second.terminalId = targetTerminalId
          THEN firstIds[Len(firstIds)]
          ELSE IF Contains(firstIds, targetTerminalId)
          THEN findSiblingTerminalId(root.first, targetTerminalId)
          ELSE IF Contains(secondIds, targetTerminalId)
          THEN findSiblingTerminalId(root.second, targetTerminalId)
          ELSE Null

\* Object.entries(layouts) is scanned in key insertion order
RECURSIVE FirstKeyContaining(_, _, _)
FirstKeyContaining(lays, keys, terminalId) ==
  IF keys = <<>> THEN Null
  ELSE IF Contains(findTerminalIds(lays[Head(keys)]), terminalId) THEN Head(keys)
  ELSE FirstKeyContaining(lays, Tail(keys), terminalId)

\* findLayoutKeyForTerminal without the scan of the trees
findLayoutKeyForTerminal_directOnly(lays, terminalId) ==
  IF Has(lays, terminalId) THEN terminalId ELSE Null

findLayoutKeyForTerminal(lays, terminalId) ==
  IF Has(lays, terminalId) THEN terminalId
  ELSE FirstKeyContaining(lays, ObjectKeys(lays), terminalId)

\* ------------------------------------------------------- useProjectStore.ts
\* A store operation maps a snapshot S of the three stores to the next one.
addProject(S, id, rootGroupId) ==
  [S EXCEPT !.projects = Put(S.projects, id, [rootGroupId |-> rootGroupId, expanded |-> TRUE]),
            !.activeProjectId = IF S.activeProjectId = Null THEN id ELSE S.activeProjectId,
            !.projectOrder = Append(S.projectOrder, id)]

removeProject(S, id) ==
  LET newOrder == Without(S.projectOrder, id)
  IN [S EXCEPT !.projects = Del(S.projects, id),
               !.projectOrder = newOrder,
               !.activeProjectId =
                  IF S.activeProjectId = id
                  THEN (IF Len(newOrder) > 0 THEN newOrder[1] ELSE Null)
                  ELSE S.activeProjectId]

setActiveProject(S, id) == [S EXCEPT !.activeProjectId = id]

toggleProjectExpanded(S, id) ==
  IF ~Has(S.projects, id) THEN S
  ELSE [S EXCEPT !.projects[id].expanded = ~S.projects[id].expanded]

\* reorderProject without the filter that takes the dragged project out of the
\* order before it is inserted again
reorderProject_keepsDragged(S, projectId, targetProjectId, position) ==
  IF projectId = targetProjectId THEN S
  ELSE LET order     == S.projectOrder
           targetIdx == IndexOf(order, targetProjectId)
       IN IF targetIdx = 0 THEN S
          ELSE [S EXCEPT !.projectOrder =
                  Splice(order, IF position = "before" THEN targetIdx - 1 ELSE targetIdx, projectId)]

reorderProject(S, projectId, targetProjectId, position) ==
  IF projectId = targetProjectId THEN S
  ELSE LET order     == Without(S.projectOrder, projectId)
           targetIdx == IndexOf(order, targetProjectId)      \* 1-based, 0 = not found
       IN IF targetIdx = 0 THEN S
          ELSE [S EXCEPT !.projectOrder =
                  Splice(order, IF position = "before" THEN targetIdx - 1 ELSE targetIdx, projectId)]

\* reorderChild that drops the child in front of the target whatever the
\* position asked for
reorderChild_alwaysBefore(S, parentNodeId, childId, targetChildId, position) ==
  IF childId = targetChildId THEN S
  ELSE IF ~Has(S.nodes, parentNodeId) THEN S
  ELSE LET children  == Without(S.nodes[parentNodeId].children, childId)
           targetIdx == IndexOf(children, targetChildId)
       IN IF targetIdx = 0 THEN S
          ELSE [S EXCEPT !.nodes[parentNodeId].children =
                  Splice(children, targetIdx - 1, childId)]

reorderChild(S, parentNodeId, childId, targetChildId, position) ==
  IF childId = targetChildId THEN S
  ELSE IF ~Has(S.nodes, parentNodeId) THEN S
  ELSE LET children  == Without(S.nodes[parentNodeId].children, childId)
           targetIdx == IndexOf(children, targetChildId)
       IN IF targetIdx = 0 THEN S
          ELSE [S EXCEPT !.nodes[parentNodeId].children =
                  Splice(children, IF position = "before" THEN targetIdx - 1 ELSE targetIdx, childId)]

GroupNode(parentId) ==
  [type |-> "group", children |-> <<>>, terminalId |-> Null, parentId |-> parentId]
TerminalNode(terminalId, parentId) ==
  [type |-> "terminal", children |-> <<>>, terminalId |-> terminalId, parentId |-> parentId]

addNode(S, id, node) == [S EXCEPT !.nodes = Put(S.nodes, id, node)]

removeNode(S, id) == [S EXCEPT !.nodes = Del(S.nodes, id)]

addChildToNode(S, parentId, childId) ==
  IF ~Has(S.nodes, parentId) THEN S
  ELSE IF Contains(S.nodes[parentId].children, childId) THEN S
  ELSE [S EXCEPT !.nodes[parentId].children = Append(S.nodes[parentId].children, childId)]

removeChildFromNode(S, parentId, childId) ==
  IF ~Has(S.nodes, parentId) THEN S
  ELSE [S EXCEPT !.nodes[parentId].children = Without(S.nodes[parentId].children, childId)]

\* a move that leaves the node among the children of its old parent
moveNode_keepsOldParent(S, nodeId, newParentId) ==
  IF ~Has(S.nodes, nodeId) THEN S
  ELSE LET n2 == IF Has(S.nodes, newParentId)
                 THEN [S.nodes EXCEPT ![newParentId].children =
                         Append(S.nodes[newParentId].children, nodeId)]
                 ELSE S.nodes
       IN [S EXCEPT !.nodes = [n2 EXCEPT ![nodeId].parentId = newParentId]]

moveNode(S, nodeId, newParentId) ==
  IF ~Has(S.nodes, nodeId) THEN S
  ELSE LET node == S.nodes[nodeId]
           n1 == IF node.parentId # NoNode /\ Has(S.nodes, node.parentId)
                 THEN [S.nodes EXCEPT ![node.parentId].children =
                         Without(S.nodes[node.parentId].children, nodeId)]
                 ELSE S.nodes
           n2 == IF Has(n1, newParentId)
                 THEN [n1 EXCEPT ![newParentId].children = Append(n1[newParentId].children, nodeId)]
                 ELSE n1
       IN [S EXCEPT !.nodes = [n2 EXCEPT ![nodeId].parentId = newParentId]]

\* persist merge: projectOrder absent or empty is backfilled from the keys
mergeProjects(S, hasProjectOrder) ==
  LET persistedOrder == IF hasProjectOrder THEN S.projectOrder ELSE <<>>
  IN [S EXCEPT !.projectOrder =
        IF Len(persistedOrder) = 0 THEN ObjectKeys(S.projects) ELSE persistedOrder]

\* ------------------------------------------------------ useTerminalStore.ts
\* exitCode: <<>> stands for null, <<n>> for the number n
NoExitCode == <<>>
NewSession == [status |-> "done", exitCode |-> NoExitCode, notes |-> ""]

addSession(S, id) ==
  [S EXCEPT !.sessions = Put(S.sessions, id, NewSession),
            !.activeTerminalId = id]

\* removeSession that falls back to the oldest remaining session
removeSession_firstKey(S, id) ==
  LET rest == Del(S.sessions, id)
      ids  == ObjectKeys(rest)
  IN [S EXCEPT !.sessions = rest,
               !.activeTerminalId =
                  IF S.activeTerminalId = id
                  THEN (IF Len(ids) > 0 THEN ids[1] ELSE Null)
                  ELSE S.activeTerminalId]

removeSession(S, id) ==
  LET rest == Del(S.sessions, id)
      ids  == ObjectKeys(rest)
  IN [S EXCEPT !.sessions = rest,
               !.activeTerminalId =
                  IF S.activeTerminalId = id
                  THEN (IF Len(ids) > 0 THEN ids[Len(ids)] ELSE Null)
                  ELSE S.activeTerminalId]

setActiveTerminal(S, id) == [S EXCEPT !.activeTerminalId = id]

\* exitCode ?? null: a call without exit code passes NoExitCode
updateStatus(S, id, status, exitCode) ==
  IF ~Has(S.sessions, id) THEN S
  ELSE [S EXCEPT !.sessions[id] = [@ EXCEPT !.status = status, !.exitCode = exitCode]]

\* { ...session, notes: session.notes ?? "", status: "done", exitCode: null }
RestoredSession(session) ==
  [f \in (DOMAIN session) \cup {"notes"} |->
     IF f = "status" THEN "done"
     ELSE IF f = "exitCode" THEN NoExitCode
     ELSE IF f = "notes" /\ "notes" \notin DOMAIN session THEN ""
     ELSE session[f]]

\* persist merge that restores the sessions as they were saved
mergeTerminals_asSaved(S) == S

\* persist merge: restored sessions are reset to done / null
mergeTerminals(S) ==
  [S EXCEPT !.sessions = [id \in DOMAIN S.sessions |-> RestoredSession(S.sessions[id])]]

\* -------------------------------------------------------- useLayoutStore.ts
initLayout(S, layoutId, terminalId) ==
  [S EXCEPT !.layouts = Put(S.layouts, layoutId, createLeaf(terminalId))]

\* splitTerminal that hands the target's id to splitAtTerminal as the new leaf
splitTerminal_reusesTarget(S, layoutId, targetTerminalId, newTerminalId, direction) ==
  IF ~Has(S.layouts, layoutId) THEN S
  ELSE [S EXCEPT !.layouts[layoutId] =
          splitAtTerminal(S.layouts[layoutId], targetTerminalId, targetTerminalId, direction)]

splitTerminal(S, layoutId, targetTerminalId, newTerminalId, direction) ==
  IF ~Has(S.layouts, layoutId) THEN S
  ELSE [S EXCEPT !.layouts[layoutId] =
          splitAtTerminal(S.layouts[layoutId], targetTerminalId, newTerminalId, direction)]

\* removeTerminal that drops an emptied layout but does not store a reduced one
removeTerminal_keepsTree(S, layoutId, targetTerminalId) ==
  IF ~Has(S.layouts, layoutId) THEN S
  ELSE LET newLayout == removeFromLayout(S.layouts[layoutId], targetTerminalId)
       IN IF newLayout = NoLayout
          THEN [S EXCEPT !.layouts = Del(S.layouts, layoutId)]
          ELSE S

removeTerminal(S, layoutId, targetTerminalId) ==
  IF ~Has(S.layouts, layoutId) THEN S
  ELSE LET newLayout == removeFromLayout(S.layouts[layoutId], targetTerminalId)
       IN IF newLayout = NoLayout
          THEN [S EXCEPT !.layouts = Del(S.layouts, layoutId)]
          ELSE [S EXCEPT !.layouts[layoutId] = newLayout]

setRatio(S, layoutId, splitId, ratio) ==
  IF ~Has(S.layouts, layoutId) THEN S
  ELSE [S EXCEPT !.layouts[layoutId] = updateRatio(S.layouts[layoutId], splitId, ratio)]

removeLayout(S, layoutId) == [S EXCEPT !.layouts = Del(S.layouts, layoutId)]

\* ------------------------------------------------------- SplitContainer.tsx
\* SplitDivider: the pointer's place along the parent, in percent of its
\* extent (below 0 or above 100 once the pointer has left the parent), is
\* clamped and handed to onResize, which is setRatio(layoutId, node.id, r).
MinRatio == 10     \* 0.1
MaxRatio == 90     \* 0.9

Min2(a, b) == IF a < b THEN a ELSE b
Max2(a, b) == IF a > b THEN a ELSE b

\* handleMouseMove that passes the pointer's ratio on as it is
handleMouseMove_noClamp(S, layoutId, splitId, pointer) ==
  setRatio(S, layoutId, splitId, pointer)

handleMouseMove(S, layoutId, splitId, pointer) ==
  setRatio(S, layoutId, splitId, Max2(MinRatio, Min2(MaxRatio, pointer)))

\* ------------------------------------------------------------------ App.tsx
\* Every handler is the sequence of store calls it makes.  It is modelled as
\* the sequence of snapshots <<S, s1, .., sn>>: S is the state the handler
\* starts in, si the state after its i-th store call (zustand publishes each
\* set() to the subscribers synchronously), sn the state it leaves.

\* const activeProject = activeProjectId ? projects[activeProjectId] : null
HasActiveProject(S) == S.activeProjectId # Null /\ Has(S.projects, S.activeProjectId)

\* the first child of the root group that is a terminal node showing terminalId
RECURSIVE FindTabNode(_, _, _)
FindTabNode(nodeMap, children, terminalId) ==
  IF children = <<>> THEN NoNode
  ELSE IF Has(nodeMap, Head(children))
          /\ nodeMap[Head(children)].type = "terminal"
          /\ nodeMap[Head(children)].terminalId = terminalId
       THEN Head(children)
       ELSE FindTabNode(nodeMap, Tail(children), terminalId)

RootChildren(S, projectId) ==
  IF Has(S.projects, projectId) /\ Has(S.nodes, S.projects[projectId].rootGroupId)
  THEN S.nodes[S.projects[projectId].rootGroupId].children
  ELSE <<>>

\* for (const id of ids) { closeTerminal(id); disposeTerminalInstance(id); removeSession(id) }
RECURSIVE CloseAll(_, _)
CloseAll(steps, ids) ==
  IF ids = <<>> THEN steps
  ELSE CloseAll(Append(steps, removeSession(Last(steps), Head(ids))), Tail(ids))

createProjectWithTerminal(S, projId, terminalId) ==
  LET rootGroupId == RootGroupId(projId)
      nodeId == TabNodeId(terminalId)
      s1 == addProject(S, projId, rootGroupId)
      s2 == addNode(s1, rootGroupId, GroupNode(NoNode))
      s3 == addNode(s2, nodeId, TerminalNode(terminalId, rootGroupId))
      s4 == addChildToNode(s3, rootGroupId, nodeId)
      s5 == addSession(s4, terminalId)
      s6 == initLayout(s5, terminalId, terminalId)
  IN <<S, s1, s2, s3, s4, s5, s6>>

createTerminalInProject(S, projectId, terminalId) ==
  IF ~Has(S.projects, projectId) THEN <<S>>
  ELSE LET rootGroupId == S.projects[projectId].rootGroupId
           nodeId == TabNodeId(terminalId)
           s1 == addNode(S, nodeId, TerminalNode(terminalId, rootGroupId))
           s2 == addChildToNode(s1, rootGroupId, nodeId)
           s3 == addSession(s2, terminalId)
           s4 == initLayout(s3, terminalId, terminalId)
       IN <<S, s1, s2, s3, s4>>

handleMoveTerminal(S, terminalId, fromProjectId, toProjectId) ==
  IF ~Has(S.projects, fromProjectId) \/ ~Has(S.projects, toProjectId) THEN <<S>>
  ELSE IF ~Has(S.nodes, S.projects[fromProjectId].rootGroupId) THEN <<S>>
  ELSE LET treeNodeId == FindTabNode(S.nodes, RootChildren(S, fromProjectId), terminalId)
       IN IF treeNodeId = NoNode THEN <<S>>
          ELSE <<S, moveNode(S, treeNodeId, S.projects[toProjectId].rootGroupId)>>

\* the loop body of handleDeleteProject; nodeMap and allLayouts are the values
\* the handler captured before its first store call
RECURSIVE DeleteTabs(_, _, _, _)
DeleteTabs(steps, children, nodeMap, allLayouts) ==
  IF children = <<>> THEN steps
  ELSE LET childId == Head(children)
           isTab == Has(nodeMap, childId) /\ nodeMap[childId].type = "terminal"
                      /\ nodeMap[childId].terminalId # Null
           tid == nodeMap[childId].terminalId
           a == IF isTab /\ Has(allLayouts, tid)
                THEN CloseAll(steps, findTerminalIds(allLayouts[tid]))
                ELSE steps
           b == IF isTab THEN Append(a, removeLayout(Last(a), tid)) ELSE a
           c == Append(b, removeNode(Last(b), childId))
       IN DeleteTabs(c, Tail(children), nodeMap, allLayouts)

\* a delete that closes the tab roots and leaves their split panes
handleDeleteProject_tabRootsOnly(S, projectId) ==
  IF ~Has(S.projects, projectId) THEN <<S>>
  ELSE LET rootGroupId == S.projects[projectId].rootGroupId
           a == DeleteTabs(<<S>>, RootChildren(S, projectId), S.nodes,
                           [k \in DOMAIN S.layouts |-> createLeaf(k)])
           b == Append(a, removeNode(Last(a), rootGroupId))
       IN Append(b, removeProject(Last(b), projectId))

handleDeleteProject(S, projectId) ==
  IF ~Has(S.projects, projectId) THEN <<S>>
  ELSE LET rootGroupId == S.projects[projectId].rootGroupId
           a == DeleteTabs(<<S>>, RootChildren(S, projectId), S.nodes, S.layouts)
           b == Append(a, removeNode(Last(a), rootGroupId))
       IN Append(b, removeProject(Last(b), projectId))

handleDeleteTerminal(S, terminalId, projectId) ==
  IF ~Has(S.projects, projectId) THEN <<S>>
  ELSE LET rootGroupId == S.projects[projectId].rootGroupId
           childId == FindTabNode(S.nodes, RootChildren(S, projectId), terminalId)
           a == IF childId = NoNode THEN <<S>>
                ELSE LET s1 == removeChildFromNode(S, rootGroupId, childId)
                     IN <<S, s1, removeNode(s1, childId)>>
           b == IF Has(Last(a).layouts, terminalId)
                THEN CloseAll(a, findTerminalIds(Last(a).layouts[terminalId]))
                ELSE a
       IN Append(b, removeLayout(Last(b), terminalId))

\* a split that also adds a tab node for the new pane
handleSplitPane_addsTabNode(S, targetTerminalId, direction, terminalId) ==
  IF ~HasActiveProject(S) THEN <<S>>
  ELSE LET layoutKey == findLayoutKeyForTerminal(S.layouts, targetTerminalId)
           rootGroupId == S.projects[S.activeProjectId].rootGroupId
       IN IF layoutKey = Null THEN <<S>>
          ELSE LET s1 == addSession(S, terminalId)
                   s2 == splitTerminal(s1, layoutKey, targetTerminalId, terminalId, direction)
                   s3 == addNode(s2, TabNodeId(terminalId), TerminalNode(terminalId, rootGroupId))
               IN <<S, s1, s2, s3>>

handleSplitPane(S, targetTerminalId, direction, terminalId) ==
  IF ~HasActiveProject(S) THEN <<S>>
  ELSE LET layoutKey == findLayoutKeyForTerminal(S.layouts, targetTerminalId)
       IN IF layoutKey = Null THEN <<S>>
          ELSE LET s1 == addSession(S, terminalId)
                   s2 == splitTerminal(s1, layoutKey, targetTerminalId, terminalId, direction)
               IN <<S, s1, s2>>

\* the tab-root branch of handleClosePane
ClosePaneTabRoot(S, terminalId, layoutKey) ==
  LET activeRoot == S.projects[S.activeProjectId].rootGroupId
      splitPanes == Without(findTerminalIds(S.layouts[layoutKey]), terminalId)
      a == CloseAll(<<S>>, splitPanes)
      b == Append(a, removeSession(Last(a), terminalId))
      c == Append(b, removeLayout(Last(b), layoutKey))
      cur == Last(c)
      childId == IF Has(cur.nodes, activeRoot)
                 THEN FindTabNode(cur.nodes, cur.nodes[activeRoot].children, terminalId)
                 ELSE NoNode
  IN IF childId = NoNode THEN c
     ELSE LET s1 == removeChildFromNode(cur, activeRoot, childId)
          IN c \o <<s1, removeNode(s1, childId)>>

\* the split-pane branch of handleClosePane
ClosePaneSplit(S, terminalId, layoutKey) ==
  LET sibling == findSiblingTerminalId(S.layouts[layoutKey], terminalId)
      s1 == removeTerminal(S, layoutKey, terminalId)
      a == IF sibling # Null /\ s1.activeTerminalId = terminalId
           THEN <<S, s1, setActiveTerminal(s1, sibling)>>
           ELSE <<S, s1>>
  IN Append(a, removeSession(Last(a), terminalId))

handleClosePane(S, terminalId) ==
  IF ~HasActiveProject(S) THEN <<S>>
  ELSE LET layoutKey == findLayoutKeyForTerminal(S.layouts, terminalId)
       IN IF layoutKey = Null THEN <<S>>
          ELSE LET activeRoot == S.projects[S.activeProjectId].rootGroupId
                   a == IF layoutKey = terminalId
                        THEN ClosePaneTabRoot(S, terminalId, layoutKey)
                        ELSE ClosePaneSplit(S, terminalId, layoutKey)
                   cur == Last(a)
               IN IF ~Has(cur.nodes, activeRoot) \/ Len(cur.nodes[activeRoot].children) = 0
                  THEN LET s1 == removeNode(cur, activeRoot)
                       IN a \o <<s1, removeProject(s1, S.activeProjectId)>>
                  ELSE a

\* the flat list of { terminalId, projectId } of the keydown handler
RECURSIVE TabsOfChildren(_, _, _)
TabsOfChildren(S, children, projId) ==
  IF children = <<>> THEN <<>>
  ELSE LET childId == Head(children)
           rest == TabsOfChildren(S, Tail(children), projId)
       IN IF Has(S.nodes, childId) /\ S.nodes[childId].type = "terminal"
             /\ S.nodes[childId].terminalId # Null
          THEN <<[terminalId |-> S.nodes[childId].terminalId, projectId |-> projId]>> \o rest
          ELSE rest

RECURSIVE AllTerminals(_, _)
AllTerminals(S, order) ==
  IF order = <<>> THEN <<>>
  ELSE LET projId == Head(order)
           rest == AllTerminals(S, Tail(order))
       IN IF ~Has(S.projects, projId) THEN rest
          ELSE IF ~Has(S.nodes, S.projects[projId].rootGroupId) THEN rest
          ELSE TabsOfChildren(S, RootChildren(S, projId), projId) \o rest

\* allTerminals.findIndex((t) => t.terminalId === id), 1-based; 0 stands for -1
FindIndex(list, id) ==
  IF \E i \in 1..Len(list) : list[i].terminalId = id
  THEN CHOOSE i \in 1..Len(list) :
         list[i].terminalId = id /\ \A j \in 1..(i-1) : list[j].terminalId # id
  ELSE 0

\* the cycling handler without the wrap from the last tab to the first
cycleTerminal_noWrap(S, forward) ==
  LET allTerminals == AllTerminals(S, S.projectOrder)
      n == Len(allTerminals)
      activeTermId == S.activeTerminalId
      direct == IF activeTermId # Null THEN FindIndex(allTerminals, activeTermId) ELSE 0
      parentKey == IF activeTermId # Null
                   THEN findLayoutKeyForTerminal(S.layouts, activeTermId) ELSE Null
      currentIdx == IF direct = 0 /\ activeTermId # Null /\ parentKey # Null
                    THEN FindIndex(allTerminals, parentKey) ELSE direct
      nextIdx == IF currentIdx = 0 THEN (IF forward THEN 1 ELSE n)
                 ELSE IF forward THEN (IF currentIdx >= n THEN n ELSE currentIdx + 1)
                 ELSE (IF currentIdx <= 1 THEN n ELSE currentIdx - 1)
  IN IF n < 2 THEN <<S>>
     ELSE LET next == allTerminals[nextIdx]
              s1 == setActiveProject(S, next.projectId)
          IN <<S, s1, setActiveTerminal(s1, next.terminalId)>>

cycleTerminal(S, forward) ==
  LET allTerminals == AllTerminals(S, S.projectOrder)
      n == Len(allTerminals)
      activeTermId == S.activeTerminalId
      direct == IF activeTermId # Null THEN FindIndex(allTerminals, activeTermId) ELSE 0
      parentKey == IF activeTermId # Null
                   THEN findLayoutKeyForTerminal(S.layouts, activeTermId) ELSE Null
      currentIdx == IF direct = 0 /\ activeTermId # Null /\ parentKey # Null
                    THEN FindIndex(allTerminals, parentKey) ELSE direct
      nextIdx == IF currentIdx = 0 THEN (IF forward THEN 1 ELSE n)
                 ELSE IF forward THEN (IF currentIdx >= n THEN 1 ELSE currentIdx + 1)
                 ELSE (IF currentIdx <= 1 THEN n ELSE currentIdx - 1)
  IN IF n < 2 THEN <<S>>
     ELSE LET next == allTerminals[nextIdx]
              s1 == setActiveProject(S, next.projectId)
          IN <<S, s1, setActiveTerminal(s1, next.terminalId)>>

\* Sidebar.tsx onTerminalClick
onTerminalClick(S, projectId, terminalId) ==
  LET s1 == setActiveProject(S, projectId)
  IN <<S, s1, setActiveTerminal(s1, terminalId)>>

\* application start: the three persisted records are merged into the stores
rehydrate(S, hasProjectOrder) == <<S, mergeTerminals(mergeProjects(S, hasProjectOrder))>>

\* ------------------------------------- shellIntegration.ts / bridge channel
\* A string is a sequence of bytes; a byte is written as a one-character
\* string, "ESC" and "BEL" standing for \x1b and \x07.
ESC == "ESC"
BEL == "BEL"
OscPrefix == <<ESC, "]", "7", "7", "7", "0", ";">>          \* "\x1b]7770;"
PrefixLen == Len(OscPrefix)

PrefixAt(data, i) ==
  i + PrefixLen - 1 <= Len(data) /\ SubSeq(data, i, i + PrefixLen - 1) = OscPrefix

\* data.lastIndexOf("\x1b]7770;"), 1-based; 0 stands for -1
LastIndexOfPrefix(data) ==
  IF \E i \in 1..Len(data) : PrefixAt(data, i)
  THEN CHOOSE i \in 1..Len(data) :
         PrefixAt(data, i) /\ \A j \in (i+1)..Len(data) : ~PrefixAt(data, j)
  ELSE 0

\* data.indexOf("\x07", from), 1-based; 0 stands for -1
IndexOfBel(data, from) ==
  IF \E j \in from..Len(data) : data[j] = BEL
  THEN CHOOSE j \in from..Len(data) :
         data[j] = BEL /\ \A k \in from..(j-1) : data[k] # BEL
  ELSE 0

\* OSC_RE = /\x1b\]7770;([^\x07]*)\x07/g : a match starts at a prefix and
\* ends at the first BEL behind it
MatchEnd(data, i) == IF PrefixAt(data, i) THEN IndexOfBel(data, i + PrefixLen) ELSE 0

\* data.replace(OSC_RE, () => ""), scanning from index i
RECURSIVE ReplaceFrom(_, _)
ReplaceFrom(data, i) ==
  IF i > Len(data) THEN <<>>
  ELSE IF MatchEnd(data, i) # 0 THEN ReplaceFrom(data, MatchEnd(data, i) + 1)
  ELSE <<data[i]>> \o ReplaceFrom(data, i + 1)

parseShellIntegration(data) == ReplaceFrom(data, 1)

\* channel.onmessage: the partial kept for the next chunk and the cleaned
\* data handed to batchedWrite (<<>> when nothing is written)
onmessage(partial, msgData) ==
  LET data0   == partial \o msgData
      lastOsc == LastIndexOfPrefix(data0)
      isOpen  == lastOsc # 0 /\ IndexOfBel(data0, lastOsc) = 0
      data    == IF isOpen THEN SubSeq(data0, 1, lastOsc - 1) ELSE data0
  IN [partial |-> IF isOpen THEN SubSeq(data0, lastOsc, Len(data0)) ELSE <<>>,
      data    |-> data,
      cleaned |-> IF data = <<>> THEN <<>> ELSE parseShellIntegration(data)]

\* the payloads of the matches of OSC_RE in data, scanning from index i
RECURSIVE PayloadsFrom(_, _)
PayloadsFrom(data, i) ==
  IF i > Len(data) THEN <<>>
  ELSE IF MatchEnd(data, i) # 0
       THEN <<SubSeq(data, i + PrefixLen, MatchEnd(data, i) - 1)>>
              \o PayloadsFrom(data, MatchEnd(data, i) + 1)
       ELSE PayloadsFrom(data, i + 1)

PreexecPayload == <<"p", "r", "e", "e", "x", "e", "c">>
PrecmdPrefix   == <<"p", "r", "e", "c", "m", "d", ";">>
StartsWith(str, prefix) ==
  Len(str) >= Len(prefix) /\ SubSeq(str, 1, Len(prefix)) = prefix

\* parseInt(str, 10) for the output of printf "%d": the leading decimal
\* digits, NaN when there is none
DigitChars == <<"0", "1", "2", "3", "4", "5", "6", "7", "8", "9">>
IsDigit(c) == \E d \in 1..Len(DigitChars) : DigitChars[d] = c
DigitValue(c) == (CHOOSE d \in 1..Len(DigitChars) : DigitChars[d] = c) - 1
RECURSIVE ParseDigits(_, _)
ParseDigits(str, acc) ==
  IF str = <<>> \/ ~IsDigit(Head(str)) THEN acc
  ELSE ParseDigits(Tail(str), 10 * acc + DigitValue(Head(str)))
NaNCode == <<"NaN">>
ParseInt(str) ==
  IF str = <<>> \/ ~IsDigit(Head(str)) THEN NaNCode ELSE <<ParseDigits(str, 0)>>

\* the replace callback of parseShellIntegration for one match
oscCallback(S, terminalId, payload) ==
  IF payload = PreexecPayload THEN updateStatus(S, terminalId, "running", NoExitCode)
  ELSE IF StartsWith(payload, PrecmdPrefix)
       THEN LET code == ParseInt(SubSeq(payload, Len(PrecmdPrefix) + 1, Len(payload)))
            IN updateStatus(S, terminalId, IF code = <<0>> THEN "done" ELSE "error", code)
       ELSE S

\* the store after each updateStatus call parseShellIntegration makes
RECURSIVE StatusSteps(_, _, _)
StatusSteps(steps, terminalId, payloads) ==
  IF payloads = <<>> THEN steps
  ELSE LET payload == Head(payloads)
           known == payload = PreexecPayload \/ StartsWith(payload, PrecmdPrefix)
           next == IF known THEN Append(steps, oscCallback(Last(steps), terminalId, payload))
                   ELSE steps
       IN StatusSteps(next, terminalId, Tail(payloads))

\* channel.onmessage as the sequence of its effects: the store after each
\* status update, then the cleaned data pushed by batchedWrite; xterm.write
\* is not called by the handler
chunkRun_writeFirst(S, terminalId, partial, buffer, xterm, msgData) ==
  LET r      == onmessage(partial, msgData)
      pushed == IF r.cleaned = <<>> THEN buffer ELSE buffer \o r.cleaned
      stores == StatusSteps(<<S>>, terminalId, PayloadsFrom(r.data, 1))
  IN <<[S |-> S, buffer |-> buffer, written |-> xterm]>>
       \o [i \in 1..Len(stores) |-> [S |-> stores[i], buffer |-> pushed, written |-> xterm]]

chunkRun(S, terminalId, partial, buffer, xterm, msgData) ==
  LET r      == onmessage(partial, msgData)
      stores == StatusSteps(<<S>>, terminalId, PayloadsFrom(r.data, 1))
      parsed == [i \in 1..Len(stores) |-> [S |-> stores[i], buffer |-> buffer, written |-> xterm]]
  IN IF r.cleaned = <<>> THEN parsed
     ELSE Append(parsed, [S |-> Last(stores), buffer |-> buffer \o r.cleaned, written |-> xterm])

Osc(payload) == OscPrefix \o payload \o <<BEL>>
Preexec == Osc(<<"p", "r", "e", "e", "x", "e", "c">>)
Precmd(code) == Osc(<<"p", "r", "e", "c", "m", "d", ";", code>>)

\* what a shell with the hooks installed prints: plain output and OSC 7770
Segments == {<<"a">>, Preexec, Precmd("0"), Precmd("1")}

RECURSIVE Flatten(_)
Flatten(segs) == IF segs = <<>> THEN <<>> ELSE Head(segs) \o Flatten(Tail(segs))

Streams == {Flatten(segs) : segs \in UNION {[1..n -> Segments] : n \in 1..MaxSegments}}

\* ------------------------------------------- useTerminalBridge: hook state
\* delays of the detection timers and the re-injection guard, in ms
CheckDelay      == 500
QuietDelay      == 1500
VerifyDelay     == 3000
MinRunning      == 2000
MaxReinjections == 3

\* a timer handle: null, or the time left until its callback runs
NoTimer == <<>>
Timer(ms) == <<ms>>

\* getHookState: the state of a terminal seen for the first time; the time
\* since lastPreexecTime (0, the epoch) is kept up to MinRunning
NewHookState ==
  [commandRunning |-> FALSE, sincePreexec |-> MinRunning,
   reinjectionAttempted |-> FALSE, reinjectionCount |-> 0,
   awaitingOsc |-> FALSE, checkTimer |-> NoTimer,
   verificationTimer |-> NoTimer, quietTimer |-> NoTimer]

\* what writeTerminal receives, as the commands of the line written
HookScript == "HOOK_SCRIPT"
Notice     == "echo '--- Setting up Dispatcher hooks ---'"
injectShellIntegration(showMessage) ==
  IF showMessage THEN << <<Notice, HookScript>> >>
  ELSE << <<"stty -echo">> >>

\* ANSI_CSI_RE, [#$%>] and \s
Letters ==
  {"a", "b", "c", "d", "e", "f", "g", "h", "i", "j", "k", "l", "m", "n", "o",
   "p", "q", "r", "s", "t", "u", "v", "w", "x", "y", "z", "A", "B", "C", "D",
   "E", "F", "G", "H", "I", "J", "K", "L", "M", "N", "O", "P", "Q", "R", "S",
   "T", "U", "V", "W", "X", "Y", "Z"}
CsiParams   == {"0", "1", "2", "3", "4", "5", "6", "7", "8", "9", ";"}
PromptChars == {"#", "$", "%", ">"}
Whitespace  == {" ", "\t", "\n", "\r"}

\* the index of the final letter of the CSI sequence starting at i, 0 if none
RECURSIVE CsiEndFrom(_, _)
CsiEndFrom(data, j) ==
  IF j > Len(data) THEN 0
  ELSE IF data[j] \in CsiParams THEN CsiEndFrom(data, j + 1)
       ELSE IF data[j] \in Letters THEN j ELSE 0
CsiEnd(data, i) ==
  IF i + 1 <= Len(data) /\ data[i] = ESC /\ data[i + 1] = "["
  THEN CsiEndFrom(data, i + 2) ELSE 0

\* data.replace(ANSI_CSI_RE, "")
RECURSIVE StripCsi(_, _)
StripCsi(data, i) ==
  IF i > Len(data) THEN <<>>
  ELSE IF CsiEnd(data, i) # 0 THEN StripCsi(data, CsiEnd(data, i) + 1)
       ELSE <<data[i]>> \o StripCsi(data, i + 1)

\* clean.split(/\r?\n/)
RECURSIVE SplitLines(_, _)
SplitLines(clean, line) ==
  IF clean = <<>> THEN <<line>>
  ELSE IF Head(clean) = "\n" THEN <<line>> \o SplitLines(Tail(clean), <<>>)
       ELSE IF Head(clean) = "\r" /\ Len(clean) >= 2 /\ clean[2] = "\n"
            THEN <<line>> \o SplitLines(Tail(Tail(clean)), <<>>)
            ELSE SplitLines(Tail(clean), Append(line, Head(clean)))

\* l.trim() is not empty
NotBlank(l) == \E i \in 1..Len(l) : l[i] \notin Whitespace
\* /[#$%>]\s*$/.test(l)
EndsLikePrompt(l) ==
  \E i \in 1..Len(l) :
    l[i] \in PromptChars /\ \A j \in (i + 1)..Len(l) : l[j] \in Whitespace

looksLikeShellPrompt(data) ==
  LET lines == SelectSeq(SplitLines(StripCsi(data, 1), <<>>), NotBlank)
  IN lines # <<>> /\ EndsLikePrompt(lines[Len(lines)])

\* a timer callback that re-injects: the attempt is counted, the hooks are
\* written with the notice and the verification timer is (re)armed
Reinject(hs) ==
  [hs |-> [hs EXCEPT !.reinjectionAttempted = TRUE,
                     !.reinjectionCount = @ + 1,
                     !.verificationTimer = Timer(VerifyDelay)],
   writes |-> injectShellIntegration(TRUE)]

\* the callback of verificationTimer
verificationFired(hs) ==
  [hs |-> [hs EXCEPT !.verificationTimer = NoTimer, !.reinjectionAttempted = FALSE],
   writes |-> <<>>]

\* the callback of quietTimer
quietFired_ignoresAttempt(hs) ==
  LET h == [hs EXCEPT !.quietTimer = NoTimer]
  IN IF h.commandRunning THEN Reinject(h) ELSE [hs |-> h, writes |-> <<>>]

quietFired(hs) ==
  LET h == [hs EXCEPT !.quietTimer = NoTimer]
  IN IF h.commandRunning /\ ~h.reinjectionAttempted
     THEN Reinject(h) ELSE [hs |-> h, writes |-> <<>>]

\* the callback of checkTimer
checkFired(hs) ==
  LET h == [hs EXCEPT !.checkTimer = NoTimer]
  IN IF h.awaitingOsc THEN Reinject([h EXCEPT !.awaitingOsc = FALSE])
     ELSE [hs |-> h, writes |-> <<>>]

\* the body of the loop of parseShellIntegrationWithHookState for one match
hookOsc_keepsQuietTimer(hs, payload) ==
  LET h == [hs EXCEPT !.awaitingOsc = FALSE, !.checkTimer = NoTimer,
                      !.verificationTimer = NoTimer,
                      !.reinjectionAttempted = FALSE, !.reinjectionCount = 0]
  IN IF payload = PreexecPayload
     THEN [h EXCEPT !.commandRunning = TRUE, !.sincePreexec = 0]
     ELSE IF StartsWith(payload, PrecmdPrefix)
          THEN [h EXCEPT !.commandRunning = FALSE]
          ELSE h

hookOsc(hs, payload) ==
  LET h == [hs EXCEPT !.awaitingOsc = FALSE, !.checkTimer = NoTimer,
                      !.verificationTimer = NoTimer, !.quietTimer = NoTimer,
                      !.reinjectionAttempted = FALSE, !.reinjectionCount = 0]
  IN IF payload = PreexecPayload
     THEN [h EXCEPT !.commandRunning = TRUE, !.sincePreexec = 0]
     ELSE IF StartsWith(payload, PrecmdPrefix)
          THEN [h EXCEPT !.commandRunning = FALSE]
          ELSE h

RECURSIVE HookOscs(_, _)
HookOscs(hs, payloads) ==
  IF payloads = <<>> THEN hs
  ELSE HookOscs(hookOsc(hs, Head(payloads)), Tail(payloads))

\* the guard shared by the two detectors
MayDetect(hs) ==
  /\ hs.commandRunning
  /\ ~hs.reinjectionAttempted
  /\ hs.reinjectionCount < MaxReinjections
  /\ hs.sincePreexec >= MinRunning

\* the hook-state part of parseShellIntegrationWithHookState
parseShellIntegrationWithHookState(hs, data) ==
  LET payloads == PayloadsFrom(data, 1)
  IN IF payloads # <<>> THEN HookOscs(hs, payloads)
     ELSE IF MayDetect(hs) /\ looksLikeShellPrompt(data)
          THEN [hs EXCEPT !.quietTimer = Timer(QuietDelay)]
          ELSE hs

checkForUnhookedShell_noCap(hs) ==
  IF ~hs.commandRunning \/ hs.reinjectionAttempted \/ hs.sincePreexec < MinRunning
  THEN hs
  ELSE [hs EXCEPT !.quietTimer = NoTimer, !.awaitingOsc = TRUE,
                  !.checkTimer = Timer(CheckDelay)]

checkForUnhookedShell_anyTime(hs) ==
  IF ~hs.commandRunning \/ hs.reinjectionAttempted
       \/ hs.reinjectionCount >= MaxReinjections
  THEN hs
  ELSE [hs EXCEPT !.quietTimer = NoTimer, !.awaitingOsc = TRUE,
                  !.checkTimer = Timer(CheckDelay)]

checkForUnhookedShell(hs) ==
  IF ~MayDetect(hs) THEN hs
  ELSE [hs EXCEPT !.quietTimer = NoTimer, !.awaitingOsc = TRUE,
                  !.checkTimer = Timer(CheckDelay)]

\* xterm.onData: what the user typed is written to the PTY, Enter included
Enter == "\r"
onData(hs, data) ==
  [hs |-> IF Contains(data, "\r") \/ Contains(data, "\n")
          THEN checkForUnhookedShell(hs) ELSE hs,
   writes |-> <<data>>]

\* the chunks a shell without the hooks may print, and the hooked ones
PromptChunk   == <<"$", " ">>
ColourPrompt  == <<"\n", ">", ESC, "[", "0", "m", " ">>
PasswordChunk == <<":", " ">>
OutputChunk   == <<"$", "\n", "a", "\r", "\n">>
\* an OSC cut inside its payload: the second chunk completes the first
PreexecHead   == SubSeq(Preexec, 1, PrefixLen + 3)
PreexecTail   == SubSeq(Preexec, PrefixLen + 4, Len(Preexec))
HookChunks ==
  {Preexec, Precmd("0"), Precmd("1") \o Preexec, Osc(<<"x">>),
   PromptChunk \o PreexecHead, PreexecTail,
   PromptChunk, ColourPrompt, PasswordChunk, OutputChunk}
KeyData == {<<Enter>>, <<"a">>}

\* ---------------------------- useTerminalBridge: instances, PTYs, batching
\* the module-level maps of useTerminalBridge for the terminals of tids, with
\* what each emulator received and how often createPty was called; hookStates
\* is the set of the terminals that have an entry in the map of that name
NewBridge(tids) ==
  [instances |-> {}, createdPtys |-> {}, mounted |-> {}, mountRafs |-> {},
   disposed |-> {}, failed |-> {},
   hookStates |-> {},
   createCalls |-> [t \in tids |-> 0],
   mounts |-> [t \in tids |-> 0],
   rafCallbacks |-> [t \in tids |-> 0],
   delivered |-> [t \in tids |-> 0],
   oscPartials |-> [t \in tids |-> <<>>],
   writeBuffers |-> [t \in tids |-> <<>>],
   writeRafs |-> {},
   cleanedChunks |-> [t \in tids |-> <<>>],
   xtermWrites |-> [t \in tids |-> <<>>]]

\* instances.get(terminalId)?.xterm.write(data)
xtermWrite(B, terminalId, by, data) ==
  IF terminalId \in B.instances
  THEN [B EXCEPT !.xtermWrites[terminalId] = Append(@, [by |-> by, data |-> data])]
  ELSE B

\* a write batch that keeps one buffer for all the terminals
batchedWrite_oneBuffer(B, terminalId, data) ==
  LET shared == CHOOSE t \in DOMAIN B.writeBuffers :
                  \A u \in DOMAIN B.writeBuffers : t <= u
  IN [B EXCEPT !.writeBuffers[shared] = @ \o data,
               !.writeRafs = @ \cup {shared},
               !.rafCallbacks[shared] = IF shared \in B.writeRafs THEN @ ELSE @ + 1]

batchedWrite(B, terminalId, data) ==
  [B EXCEPT !.writeBuffers[terminalId] = @ \o data,
            !.writeRafs = @ \cup {terminalId},
            !.rafCallbacks[terminalId] = IF terminalId \in B.writeRafs THEN @ ELSE @ + 1]

\* the animation frame requested by batchedWrite
writeRafCallback(B, terminalId) ==
  LET buf == B.writeBuffers[terminalId]
      B1  == [B EXCEPT !.writeRafs = @ \ {terminalId},
                       !.rafCallbacks[terminalId] = @ - 1]
  IN IF buf # <<>>
     THEN xtermWrite([B1 EXCEPT !.writeBuffers[terminalId] = <<>>],
                     terminalId, "batch", buf)
     ELSE B1

disposeWriteBatch(B, terminalId) ==
  [B EXCEPT !.writeRafs = @ \ {terminalId},
            !.rafCallbacks[terminalId] = IF terminalId \in B.writeRafs THEN @ - 1 ELSE @,
            !.writeBuffers[terminalId] = <<>>]

disposeTerminalInstance(B, terminalId) ==
  disposeWriteBatch(
    [B EXCEPT !.hookStates = @ \ {terminalId},
              !.oscPartials[terminalId] = <<>>,
              !.instances = @ \ {terminalId},
              !.createdPtys = @ \ {terminalId},
              !.disposed = @ \cup {terminalId}],
    terminalId)

\* the effect of useTerminalBridge: the instance is re-used or created, its
\* element attached, and an animation frame requested
bridgeEffect(B, terminalId) ==
  [B EXCEPT !.instances = @ \cup {terminalId},
            !.mounted = @ \cup {terminalId},
            !.mounts[terminalId] = @ + 1,
            !.mountRafs = @ \cup {terminalId}]

\* the cleanup of the effect: the frame is cancelled, the element detached
bridgeCleanup(B, terminalId) ==
  [B EXCEPT !.mounted = @ \ {terminalId}, !.mountRafs = @ \ {terminalId}]

ErrorCreating == <<"E">>

\* a frame callback that does not look at createdPtys
mountRafCallback_noGuard(B, terminalId, ok) ==
  LET B1 == [B EXCEPT !.mountRafs = @ \ {terminalId}]
  IN IF terminalId \notin B.instances THEN B1
     ELSE LET B2 == [B1 EXCEPT !.createdPtys = @ \cup {terminalId},
                               !.createCalls[terminalId] = @ + 1]
          IN IF ok THEN B2
             ELSE xtermWrite([B2 EXCEPT !.failed = @ \cup {terminalId}],
                             terminalId, "error", ErrorCreating)

\* the frame callback of the effect: createPty is called unless it was
\* already; ok is whether createPty resolves
mountRafCallback(B, terminalId, ok) ==
  LET B1 == [B EXCEPT !.mountRafs = @ \ {terminalId}]
  IN IF terminalId \notin B.instances \/ terminalId \in B.createdPtys THEN B1
     ELSE LET B2 == [B1 EXCEPT !.createdPtys = @ \cup {terminalId},
                               !.createCalls[terminalId] = @ + 1]
          IN IF ok THEN B2
             ELSE xtermWrite([B2 EXCEPT !.failed = @ \cup {terminalId}],
                             terminalId, "error", ErrorCreating)

\* channel.onmessage for the maps: the partial is kept, getHookState makes
\* the hook state of a terminal that has none, the cleaned data is handed to
\* batchedWrite
bridgeMessage(B, tid, msgData) ==
  LET r  == onmessage(B.oscPartials[tid], msgData)
      B1 == [B EXCEPT !.oscPartials[tid] = r.partial,
                      !.hookStates = IF r.data = <<>> THEN @ ELSE @ \cup {tid},
                      !.delivered[tid] = @ + 1,
                      !.cleanedChunks[tid] = @ \o r.cleaned]
  IN IF r.cleaned = <<>> THEN B1 ELSE batchedWrite(B1, tid, r.cleaned)

\* what the PTY of each terminal prints, chunk by chunk: every chunk names
\* its terminal and its rank, every second one carries an OSC
TerminalChars == <<"A", "B", "C", "D">>
PtyChunk(t, k) ==
  IF k % 2 = 1 THEN <<TerminalChars[t], DigitChars[k]>>
  ELSE <<TerminalChars[t]>> \o Preexec \o <<DigitChars[k]>>

\* ------------------------------------------------------------ specification
Snapshot ==
  [projects |-> projects, nodes |-> nodes, activeProjectId |-> activeProjectId,
   projectOrder |-> projectOrder, sessions |-> sessions,
   activeTerminalId |-> activeTerminalId, layouts |-> layouts]

\* the handler ran: its last snapshot is the new state of the stores
Commit(steps) ==
  LET S == Last(steps)
  IN /\ projects' = S.projects
     /\ nodes' = S.nodes
     /\ activeProjectId' = S.activeProjectId
     /\ projectOrder' = S.projectOrder
     /\ sessions' = S.sessions
     /\ activeTerminalId' = S.activeTerminalId
     /\ layouts' = S.layouts

StoreInit ==
  /\ projects = EmptyMap
  /\ nodes = EmptyMap
  /\ activeProjectId = Null
  /\ projectOrder = <<>>
  /\ sessions = EmptyMap
  /\ activeTerminalId = Null
  /\ layouts = EmptyMap
  /\ nextProjectId = 1
  /\ nextTerminalId = 1

OscInit ==
  /\ stream = <<>>
  /\ fed = 0
  /\ oscPartials = <<>>
  /\ emitted = <<>>
  /\ writeBuffers = <<>>
  /\ writeRafs = FALSE
  /\ written = <<>>

\* the hook state of a terminal whose PTY was just created
HookInit ==
  /\ hookStates = NewHookState
  /\ ptyWrites = <<>>
  /\ hookEvent = [type |-> "createPty", data |-> <<>>, cleared |-> {},
                  quiet |-> QuietDelay, sinceInject |-> VerifyDelay]

Init == StoreInit /\ OscInit /\ HookInit /\ bridge = NewBridge({})

\* App.tsx: the layout shown by ProjectView
activeLayoutKey ==
  IF HasActiveProject(Snapshot) /\ activeTerminalId # Null
  THEN findLayoutKeyForTerminal(layouts, activeTerminalId)
  ELSE Null

\* the panes rendered by SplitContainer
VisiblePanes ==
  IF activeLayoutKey # Null /\ Has(layouts, activeLayoutKey)
  THEN {findTerminalIds(layouts[activeLayoutKey])[i] :
          i \in 1..Len(findTerminalIds(layouts[activeLayoutKey]))}
  ELSE {}

\* the tab nodes the sidebar renders under an expanded project
SidebarTabs(p) ==
  IF Has(projects, p) /\ projects[p].expanded
  THEN {i \in 1..Len(RootChildren(Snapshot, p)) :
          Has(nodes, RootChildren(Snapshot, p)[i])
          /\ nodes[RootChildren(Snapshot, p)[i]].type = "terminal"}
  ELSE {}
SidebarTabNode(p, i) == RootChildren(Snapshot, p)[i]

NewProject ==
  /\ nextProjectId <= MaxProjects
  /\ nextTerminalId <= MaxTerminals
  /\ Commit(createProjectWithTerminal(Snapshot, nextProjectId, nextTerminalId))
  /\ nextProjectId' = nextProjectId + 1
  /\ nextTerminalId' = nextTerminalId + 1
  /\ UNCHANGED oscVars

NewTerminalInProject ==
  \E p \in DOMAIN projects :
    /\ nextTerminalId <= MaxTerminals
    /\ Commit(createTerminalInProject(Snapshot, p, nextTerminalId))
    /\ nextTerminalId' = nextTerminalId + 1
    /\ UNCHANGED <<nextProjectId, oscVars>>

SplitPane ==
  \E t \in VisiblePanes \cup ({activeTerminalId} \ {Null}), d \in Directions :
    /\ nextTerminalId <= MaxTerminals
    /\ LET steps == handleSplitPane(Snapshot, t, d, nextTerminalId)
       IN /\ Commit(steps)
          /\ nextTerminalId' = IF Len(steps) > 1 THEN nextTerminalId + 1 ELSE nextTerminalId
    /\ UNCHANGED <<nextProjectId, oscVars>>

ClosePane ==
  \E t \in VisiblePanes \cup ({activeTerminalId} \ {Null}) :
    /\ Commit(handleClosePane(Snapshot, t))
    /\ UNCHANGED <<nextProjectId, nextTerminalId, oscVars>>

DeleteTerminal ==
  \E p \in DOMAIN projects : \E i \in SidebarTabs(p) :
    /\ Commit(handleDeleteTerminal(Snapshot, nodes[SidebarTabNode(p, i)].terminalId, p))
    /\ UNCHANGED <<nextProjectId, nextTerminalId, oscVars>>

DeleteProject ==
  \E p \in DOMAIN projects :
    /\ Commit(handleDeleteProject(Snapshot, p))
    /\ UNCHANGED <<nextProjectId, nextTerminalId, oscVars>>

MoveTerminal ==
  \E from \in DOMAIN projects, to \in DOMAIN projects : \E i \in SidebarTabs(from) :
    /\ from # to
    /\ Commit(handleMoveTerminal(Snapshot, nodes[SidebarTabNode(from, i)].terminalId, from, to))
    /\ UNCHANGED <<nextProjectId, nextTerminalId, oscVars>>

ReorderChild ==
  \E p \in DOMAIN projects : \E i \in SidebarTabs(p), j \in SidebarTabs(p), pos \in Positions :
    /\ i # j
    /\ Commit(<<Snapshot, reorderChild(Snapshot, nodes[SidebarTabNode(p, j)].parentId,
                                       SidebarTabNode(p, i), SidebarTabNode(p, j), pos)>>)
    /\ UNCHANGED <<nextProjectId, nextTerminalId, oscVars>>

ReorderProject ==
  \E p \in DOMAIN projects, t \in DOMAIN projects, pos \in Positions :
    /\ p # t
    /\ Commit(<<Snapshot, reorderProject(Snapshot, p, t, pos)>>)
    /\ UNCHANGED <<nextProjectId, nextTerminalId, oscVars>>

SelectProject ==
  \E p \in DOMAIN projects :
    /\ Commit(<<Snapshot, setActiveProject(Snapshot, p)>>)
    /\ UNCHANGED <<nextProjectId, nextTerminalId, oscVars>>

ToggleProjectExpanded ==
  \E p \in DOMAIN projects :
    /\ Commit(<<Snapshot, toggleProjectExpanded(Snapshot, p)>>)
    /\ UNCHANGED <<nextProjectId, nextTerminalId, oscVars>>

TerminalClick ==
  \E p \in DOMAIN projects : \E i \in SidebarTabs(p) :
    /\ Commit(onTerminalClick(Snapshot, p, nodes[SidebarTabNode(p, i)].terminalId))
    /\ UNCHANGED <<nextProjectId, nextTerminalId, oscVars>>

FocusPane ==
  \E t \in VisiblePanes :
    /\ Commit(<<Snapshot, setActiveTerminal(Snapshot, t)>>)
    /\ UNCHANGED <<nextProjectId, nextTerminalId, oscVars>>

CycleTerminal ==
  \E forward \in BOOLEAN :
    /\ Commit(cycleTerminal(Snapshot, forward))
    /\ UNCHANGED <<nextProjectId, nextTerminalId, oscVars>>

Restart ==
  \E hasProjectOrder \in BOOLEAN :
    /\ Commit(rehydrate(Snapshot, hasProjectOrder))
    /\ UNCHANGED <<nextProjectId, nextTerminalId, oscVars>>

Next ==
  \/ NewProject
  \/ NewTerminalInProject
  \/ SplitPane
  \/ ClosePane
  \/ DeleteTerminal
  \/ DeleteProject
  \/ MoveTerminal
  \/ ReorderChild
  \/ ReorderProject
  \/ SelectProject
  \/ ToggleProjectExpanded
  \/ TerminalClick
  \/ FocusPane
  \/ CycleTerminal
  \/ Restart

Spec == Init /\ [][Next]_vars

\* --- the channel of one terminal fed with a stream cut into chunks
\* the terminal whose channel is fed: the first terminal created
ChannelTid == 1
EmptyStores ==
  [projects |-> EmptyMap, nodes |-> EmptyMap, activeProjectId |-> Null,
   projectOrder |-> <<>>, sessions |-> EmptyMap, activeTerminalId |-> Null,
   layouts |-> EmptyMap]

StoresAre(S) ==
  /\ projects = S.projects
  /\ nodes = S.nodes
  /\ activeProjectId = S.activeProjectId
  /\ projectOrder = S.projectOrder
  /\ sessions = S.sessions
  /\ activeTerminalId = S.activeTerminalId
  /\ layouts = S.layouts

InitOsc ==
  /\ StoresAre(Last(createProjectWithTerminal(EmptyStores, 1, ChannelTid)))
  /\ nextProjectId = 2
  /\ nextTerminalId = ChannelTid + 1
  /\ stream \in Streams
  /\ fed = 0
  /\ oscPartials = <<>>
  /\ emitted = <<>>
  /\ writeBuffers = <<>>
  /\ writeRafs = FALSE
  /\ written = <<>>
  /\ HookInit
  /\ bridge = NewBridge({})

Chunk(k) == SubSeq(stream, fed + 1, fed + k)

\* one chunk of any size arrives on the channel
Deliver ==
  \E k \in 1..(Len(stream) - fed) :
    LET r   == onmessage(oscPartials, Chunk(k))
        run == chunkRun(Snapshot, ChannelTid, oscPartials, writeBuffers, written, Chunk(k))
    IN /\ fed' = fed + k
       /\ oscPartials' = r.partial
       /\ emitted' = emitted \o r.cleaned
       /\ Commit(<<Last(run).S>>)
       /\ writeBuffers' = Last(run).buffer
       /\ writeRafs' = (writeRafs \/ r.cleaned # <<>>)
       /\ written' = Last(run).written
       /\ UNCHANGED <<stream, nextProjectId, nextTerminalId, hookVars, bridge>>

\* the animation frame requested by batchedWrite runs
Flush ==
  /\ writeRafs
  /\ writeRafs' = FALSE
  /\ written' = written \o writeBuffers
  /\ writeBuffers' = <<>>
  /\ UNCHANGED <<stream, fed, oscPartials, emitted, storeVars, hookVars, bridge>>

NextOsc ==
  \/ Deliver
  \/ Flush

SpecOsc == InitOsc /\ [][NextOsc]_vars

\* --- the hook state of one terminal: chunks, key presses, timers and time

InitHook ==
  /\ StoresAre(Last(createProjectWithTerminal(EmptyStores, 1, ChannelTid)))
  /\ nextProjectId = 2
  /\ nextTerminalId = ChannelTid + 1
  /\ OscInit
  /\ HookInit
  /\ bridge = NewBridge({})

\* the timers a callback cancelled with clearTimeout and did not arm again
TimerNames == {"checkTimer", "quietTimer", "verificationTimer"}
Cleared(before, after) ==
  {n \in TimerNames : before[n] \notin {NoTimer, Timer(0)} /\ after[n] = NoTimer}

\* channel.onmessage: the hook state and the status follow the chunk; the
\* partial sequence kept is no longer than the head of one OSC
HookChunk ==
  \E msgData \in HookChunks :
    LET r == onmessage(oscPartials, msgData)
    IN /\ Len(r.partial) <= Len(PreexecHead)
       /\ oscPartials' = r.partial
       /\ hookStates' = parseShellIntegrationWithHookState(hookStates, r.data)
       /\ Commit(StatusSteps(<<Snapshot>>, ChannelTid, PayloadsFrom(r.data, 1)))
       /\ ptyWrites' = <<>>
       /\ hookEvent' = [type |-> "onmessage", data |-> r.data,
                         cleared |-> Cleared(hookStates, hookStates'),
                         quiet |-> 0,
                         sinceInject |-> IF PayloadsFrom(r.data, 1) # <<>> THEN VerifyDelay
                                         ELSE hookEvent.sinceInject]
       /\ UNCHANGED <<stream, fed, emitted, writeBuffers, writeRafs, written,
                      nextProjectId, nextTerminalId, bridge>>

\* xterm.onData
KeyPress ==
  \E data \in KeyData :
    /\ hookStates' = onData(hookStates, data).hs
    /\ ptyWrites' = onData(hookStates, data).writes
    /\ hookEvent' = [type |-> "onData", data |-> data,
                      cleared |-> Cleared(hookStates, hookStates'),
                      quiet |-> hookEvent.quiet, sinceInject |-> hookEvent.sinceInject]
    /\ UNCHANGED <<storeVars, channelVars, bridge>>

TimerFires(name, due, callback) ==
  /\ due = Timer(0)
  /\ hookStates' = callback.hs
  /\ ptyWrites' = callback.writes
  /\ hookEvent' = [type |-> name, data |-> <<>>,
                    cleared |-> Cleared(hookStates, hookStates'),
                    quiet |-> hookEvent.quiet,
                    sinceInject |-> IF callback.writes = injectShellIntegration(TRUE) THEN 0
                                    ELSE hookEvent.sinceInject]
  /\ UNCHANGED <<storeVars, channelVars, bridge>>

CheckTimerFires ==
  TimerFires("checkTimer", hookStates.checkTimer, checkFired(hookStates))
QuietTimerFires ==
  TimerFires("quietTimer", hookStates.quietTimer, quietFired(hookStates))
VerificationTimerFires ==
  TimerFires("verificationTimer", hookStates.verificationTimer,
             verificationFired(hookStates))

\* time passes: CheckDelay ms, the shortest delay, divides all the others
Elapse(timer) == IF timer = NoTimer THEN NoTimer ELSE Timer(timer[1] - CheckDelay)
Due(hs) == Timer(0) \in {hs.checkTimer, hs.quietTimer, hs.verificationTimer}
\* a time span CheckDelay ms later, measured up to the span that matters
Later(ms, most) == IF ms + CheckDelay >= most THEN most ELSE ms + CheckDelay
Tick ==
  /\ ~Due(hookStates)
  /\ hookStates' =
       [hookStates EXCEPT
          !.sincePreexec = IF @ + CheckDelay >= MinRunning THEN MinRunning
                           ELSE @ + CheckDelay,
          !.checkTimer = Elapse(@),
          !.quietTimer = Elapse(@),
          !.verificationTimer = Elapse(@)]
  /\ ptyWrites' = <<>>
  /\ hookEvent' = [type |-> "tick", data |-> <<>>, cleared |-> {},
                    quiet |-> Later(hookEvent.quiet, QuietDelay),
                    sinceInject |-> Later(hookEvent.sinceInject, VerifyDelay)]
  /\ UNCHANGED <<storeVars, channelVars, bridge>>

NextHook ==
  \/ HookChunk
  \/ KeyPress
  \/ CheckTimerFires
  \/ QuietTimerFires
  \/ VerificationTimerFires
  \/ Tick

SpecHook == InitHook /\ [][NextHook]_vars

\* --- the panes of MaxPanes terminals: mounts, PTY creation, output, disposal
BridgeTids == 1..MaxPanes

\* the stores after a project and MaxPanes tabs were created in it
RECURSIVE StoresWithTabs(_)
StoresWithTabs(n) ==
  IF n = 1 THEN Last(createProjectWithTerminal(EmptyStores, 1, 1))
  ELSE Last(createTerminalInProject(StoresWithTabs(n - 1), 1, n))

InitBridge ==
  /\ StoresAre(StoresWithTabs(MaxPanes))
  /\ nextProjectId = 2
  /\ nextTerminalId = MaxPanes + 1
  /\ stream = <<>>
  /\ fed = 0
  /\ oscPartials = <<>>
  /\ emitted = <<>>
  /\ writeBuffers = <<>>
  /\ writeRafs = FALSE
  /\ written = <<>>
  /\ HookInit
  /\ bridge = NewBridge(BridgeTids)

BridgeStep(B) ==
  /\ bridge' = B
  /\ UNCHANGED <<storeVars, stream, fed, oscPartials, emitted, writeBuffers,
                 writeRafs, written, hookVars>>

\* a layout reshape renders the pane of a terminal that is not closed
Mount(t) ==
  /\ t \notin bridge.mounted
  /\ t \notin bridge.disposed
  /\ bridge.mounts[t] < MaxMounts
  /\ BridgeStep(bridgeEffect(bridge, t))

Unmount(t) ==
  /\ t \in bridge.mounted
  /\ BridgeStep(bridgeCleanup(bridge, t))

MountFrame(t) ==
  /\ t \in bridge.mountRafs
  /\ \E ok \in BOOLEAN : BridgeStep(mountRafCallback(bridge, t, ok))

\* the channel of a PTY that was created delivers its next chunk
Message(t) ==
  /\ bridge.createCalls[t] > 0
  /\ t \notin bridge.failed
  /\ bridge.delivered[t] < MaxChunks
  /\ LET msgData == PtyChunk(t, bridge.delivered[t] + 1)
         r == onmessage(bridge.oscPartials[t], msgData)
     IN /\ bridge' = bridgeMessage(bridge, t, msgData)
        /\ Commit(StatusSteps(<<Snapshot>>, t, PayloadsFrom(r.data, 1)))
        /\ UNCHANGED <<nextProjectId, nextTerminalId, stream, fed, oscPartials,
                       emitted, writeBuffers, writeRafs, written, hookVars>>

WriteFrame(t) ==
  /\ bridge.rafCallbacks[t] > 0
  /\ BridgeStep(writeRafCallback(bridge, t))

\* the terminal is closed
Dispose(t) ==
  /\ t \notin bridge.disposed
  /\ BridgeStep(disposeTerminalInstance(bridge, t))

NextBridge ==
  \E t \in BridgeTids :
    \/ Mount(t)
    \/ Unmount(t)
    \/ MountFrame(t)
    \/ Message(t)
    \/ WriteFrame(t)
    \/ Dispose(t)

SpecBridge == InitBridge /\ [][NextBridge]_vars

\* ---------------------------------------------------------------------------
\* The layout store on its own, driven as useLayoutStore.test.ts drives it:
\* any sequence of initLayout, splitTerminal, removeTerminal and removeLayout
\* calls, and setRatio as the divider of SplitContainer calls it.  New
\* terminal ids come from generateId, so an id is never handed out twice; a
\* tab's layout is keyed by its first terminal.
ResizedRatio == 70     \* ratio: 0.7, a divider that was dragged
Pointers == {-20, ResizedRatio, 120}
LayoutIds == 1..MaxLayoutIds

LayoutStep(S) ==
  /\ layouts' = S.layouts
  /\ UNCHANGED <<projects, nodes, activeProjectId, projectOrder, sessions,
                 activeTerminalId, nextProjectId, oscVars>>

InitLayoutCall ==
  /\ nextTerminalId <= MaxLayoutIds
  /\ LayoutStep(initLayout(Snapshot, nextTerminalId, nextTerminalId))
  /\ nextTerminalId' = nextTerminalId + 1

SplitTerminalCall(k, t, d) ==
  /\ nextTerminalId <= MaxLayoutIds
  /\ LayoutStep(splitTerminal(Snapshot, k, t, nextTerminalId, d))
  /\ nextTerminalId' = nextTerminalId + 1

RemoveTerminalCall(k, t) ==
  /\ LayoutStep(removeTerminal(Snapshot, k, t))
  /\ UNCHANGED nextTerminalId

SetRatioCall(k, r) ==
  /\ Has(layouts, k)
  /\ \E splitId \in SplitIds(layouts[k]) :
       LayoutStep(handleMouseMove(Snapshot, k, splitId, r))
  /\ UNCHANGED nextTerminalId

RemoveLayoutCall(k) ==
  /\ Has(layouts, k)
  /\ LayoutStep(removeLayout(Snapshot, k))
  /\ UNCHANGED nextTerminalId

NextLayout ==
  \/ InitLayoutCall
  \/ \E k \in LayoutIds, t \in LayoutIds, d \in Directions : SplitTerminalCall(k, t, d)
  \/ \E k \in LayoutIds, t \in LayoutIds : RemoveTerminalCall(k, t)
  \/ \E k \in LayoutIds, r \in Pointers : SetRatioCall(k, r)
  \/ \E k \in LayoutIds : RemoveLayoutCall(k)

SpecLayout == Init /\ [][NextLayout]_vars

\* ================================================================== claims
LeafSeq(k) == findTerminalIds(layouts[k])
Leaves(k)  == {LeafSeq(k)[i] : i \in 1..Len(LeafSeq(k))}

RECURSIVE AllLeaves(_, _)
AllLeaves(lays, keys) ==
  IF keys = <<>> THEN <<>>
  ELSE findTerminalIds(lays[Head(keys)]) \o AllLeaves(lays, Tail(keys))

NoDuplicates(s) == \A i \in 1..Len(s) : \A j \in 1..Len(s) : i # j => s[i] # s[j]

\* the targets a close or split request can name: a rendered pane, or the
\* active terminal through the keyboard shortcut
PaneTargets == VisiblePanes \cup ({activeTerminalId} \ {Null})

\* the runs of the six composite operations that can start in the current state
CompositeRuns ==
  {createProjectWithTerminal(Snapshot, nextProjectId, nextTerminalId)}
  \cup {createTerminalInProject(Snapshot, p, nextTerminalId) : p \in DOMAIN projects}
  \cup {handleSplitPane(Snapshot, t, d, nextTerminalId) : t \in PaneTargets, d \in Directions}
  \cup {handleClosePane(Snapshot, t) : t \in PaneTargets}
  \cup UNION {{handleDeleteTerminal(Snapshot, nodes[SidebarTabNode(p, i)].terminalId, p) :
                 i \in SidebarTabs(p)} : p \in DOMAIN projects}
  \cup {handleDeleteProject(Snapshot, p) : p \in DOMAIN projects}

\* a step of the program that is the run `steps` of a handler
IsRun(steps) == Snapshot' = Last(steps)

\* C1: OSC round-trip.  Once every chunk of the stream has been delivered to
\* channel.onmessage, the concatenation of the cleaned outputs equals the
\* stream with every complete ESC ]7770;<payload> BEL sequence removed,
\* wherever the chunk boundaries fell.
C1_OscRoundTrip ==
  fed = Len(stream) => emitted = parseShellIntegration(stream)

\* C2: activeTerminalId is null or the id of a session present in sessions.
C2_ActiveTerminalHasSession ==
  activeTerminalId = Null \/ Has(sessions, activeTerminalId)

\* C3: every leaf of every layout tree has a terminalId that is a key of
\* sessions.
C3_LeavesHaveSessions ==
  \A k \in DOMAIN layouts : \A t \in Leaves(k) : Has(sessions, t)

\* a pane was closed (a created terminal has no session any more) while a
\* split layout is still displayed
C3_Witness ==
  /\ \E k \in DOMAIN layouts : Len(LeafSeq(k)) >= 2
  /\ Cardinality(DOMAIN sessions) < nextTerminalId - 1

\* C4: no terminalId occurs as a leaf more than once across all layout trees.
C4_NoDuplicateLeaves ==
  NoDuplicates(AllLeaves(layouts, ObjectKeys(layouts)))

\* two layouts exist and one of them has been split
C4_Witness ==
  /\ Cardinality(DOMAIN layouts) >= 2
  /\ \E k \in DOMAIN layouts : Len(LeafSeq(k)) >= 2

\* C5: for each tree node of type terminal, layouts has an entry keyed by the
\* node's terminalId and the tree of that entry contains a leaf with that
\* terminalId.
C5_TabNodesHaveLayouts ==
  \A n \in DOMAIN nodes :
    nodes[n].type = "terminal" =>
      /\ Has(layouts, nodes[n].terminalId)
      /\ nodes[n].terminalId \in Leaves(nodes[n].terminalId)

\* C6: each composite operation is atomic for observers: every snapshot the
\* run of a composite publishes to the store subscribers is either the state
\* before the composite or the state after it, never a state with only part
\* of its changes.
C6_CompositesAtomic ==
  [][\A steps \in CompositeRuns :
       IsRun(steps) =>
         \A i \in 1..Len(steps) : steps[i] = steps[1] \/ steps[i] = Last(steps)]_vars

\* C7: projectOrder contains each key of projects exactly once and nothing
\* else.
C7_ProjectOrderIsPermutation ==
  /\ NoDuplicates(projectOrder)
  /\ {projectOrder[i] : i \in 1..Len(projectOrder)} = DOMAIN projects

\* the projects were reordered: the order differs from the key order
C7_Witness ==
  /\ Len(projectOrder) >= 2
  /\ projectOrder # ObjectKeys(projects)

ChildrenConsistent(S) ==
  \A g \in DOMAIN S.nodes :
    S.nodes[g].type = "group" =>
      /\ NoDuplicates(S.nodes[g].children)
      /\ \A i \in 1..Len(S.nodes[g].children) :
           /\ Has(S.nodes, S.nodes[g].children[i])
           /\ S.nodes[S.nodes[g].children[i]].parentId = g

\* the runs of the handlers that call the project store's node operations
NodeStoreRuns ==
  CompositeRuns
  \cup UNION {UNION {{handleMoveTerminal(Snapshot, nodes[SidebarTabNode(from, i)].terminalId, from, to) :
                        i \in SidebarTabs(from)} : to \in (DOMAIN projects) \ {from}} :
                from \in DOMAIN projects}

\* C8: after every project-store operation (addNode, removeNode,
\* addChildToNode, removeChildFromNode, reorderChild, moveNode) each group's
\* children list has no duplicates and each element is the id of an existing
\* node whose parentId is that group.
C8_ChildrenConsistentAfterEveryCall ==
  [][\A steps \in NodeStoreRuns :
       IsRun(steps) => \A i \in 1..Len(steps) : ChildrenConsistent(steps[i])]_vars

\* the pane t is closed, it is the root of a tab that has other panes
ClosesTabRootWithSiblings(t) ==
  /\ HasActiveProject(Snapshot)
  /\ t \in PaneTargets
  /\ Has(layouts, t)
  /\ Len(LeafSeq(t)) >= 2
  /\ IsRun(handleClosePane(Snapshot, t))

\* C9: closing a tab-root pane whose layout has other leaves keeps the tab:
\* the remaining layout is stored under the terminalId of a surviving leaf,
\* the old key is absent from layouts, the owning tree node's terminalId is
\* the new key, and the sessions of the surviving panes remain.
C9_CloseTabRootRekeys ==
  [][\A t \in TerminalIds :
       ClosesTabRootWithSiblings(t) =>
         LET survivors == Without(LeafSeq(t), t)
         IN /\ ~Has(layouts', t)
            /\ \E k \in DOMAIN layouts' :
                 /\ Contains(survivors, k)
                 /\ findTerminalIds(layouts'[k]) = survivors
                 /\ \E n \in DOMAIN nodes :
                      /\ nodes[n].type = "terminal" /\ nodes[n].terminalId = t
                      /\ Has(nodes', n) /\ nodes'[n].terminalId = k
            /\ \A i \in 1..Len(survivors) : Has(sessions', survivors[i])]_vars

\* the pane t of a layout with at least two leaves is closed
ClosesPaneWithSiblings(t) ==
  /\ HasActiveProject(Snapshot)
  /\ t \in PaneTargets
  /\ findLayoutKeyForTerminal(layouts, t) # Null
  /\ Len(LeafSeq(findLayoutKeyForTerminal(layouts, t))) >= 2
  /\ IsRun(handleClosePane(Snapshot, t))

\* C10: when the active pane is closed and its layout has another leaf,
\* activeTerminalId becomes the leaf that findSiblingTerminalId returns for
\* the layout before the close, a surviving leaf of the same tab; closing a
\* pane that is not active leaves activeTerminalId unchanged.
C10_CloseFocusesSibling ==
  [][\A t \in TerminalIds :
       ClosesPaneWithSiblings(t) =>
         LET key == findLayoutKeyForTerminal(layouts, t)
         IN IF activeTerminalId = t
            THEN /\ activeTerminalId' = findSiblingTerminalId(layouts[key], t)
                 /\ activeTerminalId' # t
                 /\ activeTerminalId' \in Leaves(key)
                 /\ Has(sessions', activeTerminalId')
            ELSE activeTerminalId' = activeTerminalId]_vars


\* the list the cycling handler walks, and the tab the active terminal
\* belongs to
CyclingList == AllTerminals(Snapshot, projectOrder)
ActiveTabKey ==
  IF activeTerminalId = Null THEN Null
  ELSE findLayoutKeyForTerminal(layouts, activeTerminalId)

\* the active terminal resolves to index i of the cycling list: it is the
\* tab at i, or a split pane of the tab at i
ResolvesTo(i) ==
  /\ activeTerminalId # Null
  /\ \/ CyclingList[i].terminalId = activeTerminalId
     \/ /\ \A j \in 1..Len(CyclingList) : CyclingList[j].terminalId # activeTerminalId
        /\ CyclingList[i].terminalId = ActiveTabKey

\* a cycle that finds at least two tabs is the step taken
IsCycle(forward) ==
  /\ Len(CyclingList) >= 2
  /\ IsRun(cycleTerminal(Snapshot, forward))

\* C11: when a pane is closed every lastFocused entry naming it is purged, so
\* that a later tab cycle never sets activeTerminalId to a terminal whose
\* session no longer exists.
C11_CycleNeverSelectsClosedPane ==
  [][\A forward \in BOOLEAN :
       IsCycle(forward) => Has(sessions', activeTerminalId')]_vars

\* C12: last-focused restoration.  When split pane s of tab t1 is the pane
\* focused in that tab, cycling away from t1 and cycling back makes s the
\* active terminal again, not t1; a tab left while its root was focused gets
\* its root back.
C12_CycleBackRestoresPane ==
  \A i \in 1..Len(CyclingList) :
    (Len(CyclingList) >= 2 /\ ResolvesTo(i)) =>
      LET away == Last(cycleTerminal(Snapshot, TRUE))
          back == Last(cycleTerminal(away, FALSE))
      IN /\ away.activeTerminalId = CyclingList[(i % Len(CyclingList)) + 1].terminalId
         /\ back.activeTerminalId = activeTerminalId

\* position of project p in projectOrder and of tab node n under its root
OrderIndex(p) == IndexOf(projectOrder, p)
ChildIndex(p, t) ==
  CHOOSE k \in 0..Len(RootChildren(Snapshot, p)) :
    IF \E c \in 1..Len(RootChildren(Snapshot, p)) :
         /\ Has(nodes, RootChildren(Snapshot, p)[c])
         /\ nodes[RootChildren(Snapshot, p)[c]].terminalId = t
    THEN /\ k >= 1
         /\ Has(nodes, RootChildren(Snapshot, p)[k])
         /\ nodes[RootChildren(Snapshot, p)[k]].terminalId = t
    ELSE k = 0

RECURSIVE CycleTimes(_, _)
CycleTimes(S, k) == IF k = 0 THEN S ELSE CycleTimes(Last(cycleTerminal(S, TRUE)), k - 1)

C14_CycleSkipsCollapsed ==
  [][\A forward \in BOOLEAN :
       IsCycle(forward) =>
         /\ Has(projects', activeProjectId')
         /\ projects'[activeProjectId'].expanded
         /\ Has(sessions', activeTerminalId')
         /\ \E c \in 1..Len(RootChildren(Snapshot, activeProjectId')) :
              /\ Has(nodes, RootChildren(Snapshot, activeProjectId')[c])
              /\ nodes[RootChildren(Snapshot, activeProjectId')[c]].terminalId = activeTerminalId']_vars


\* the status and exit code an OSC 7770 payload stands for
StatusOf(payload) ==
  IF payload = PreexecPayload THEN [status |-> "running", exitCode |-> NoExitCode]
  ELSE LET n == DigitValue(payload[Len(payload)])
       IN [status |-> IF n = 0 THEN "done" ELSE "error", exitCode |-> <<n>>]

\* C15: after all chunks of a stream have been processed, the session's
\* status and exitCode are those of the last complete OSC 7770 sequence of
\* the stream (preexec: running; precmd;n: done if n = 0, otherwise error,
\* with exitCode n), however the stream was cut into chunks.
C15_StatusFollowsLastOsc ==
  fed = Len(stream) =>
    LET payloads == PayloadsFrom(stream, 1)
        session  == sessions[ChannelTid]
    IN IF payloads = <<>>
       THEN session.status = NewSession.status /\ session.exitCode = NewSession.exitCode
       ELSE /\ session.status = StatusOf(Last(payloads)).status
            /\ session.exitCode = StatusOf(Last(payloads)).exitCode

\* C20: for every chunk, the status update caused by an OSC in the chunk is
\* in the terminal store before any cleaned byte of the chunk is handed to
\* the write batch or written to the emulator.
C20_StatusBeforeWrite ==
  [][\A k \in 1..(Len(stream) - fed) :
       LET run == chunkRun(Snapshot, ChannelTid, oscPartials, writeBuffers, written, Chunk(k))
       IN fed' = fed + k =>
            /\ Snapshot' = Last(run).S
            /\ \A i \in 1..Len(run) :
                 (run[i].buffer # writeBuffers \/ run[i].written # written) =>
                   run[i].S = Snapshot']_vars

\* a chunk that held both an OSC and output was processed: the status is no
\* longer the initial one and cleaned data waits for the animation frame
C20_Witness ==
  /\ fed > 0
  /\ writeBuffers # <<>>
  /\ sessions[ChannelTid].status # NewSession.status

\* --- the re-injection detectors (SpecHook)
\* the step just taken delivered a chunk that, with the partial sequence
\* kept from the chunks before it, holds a match of OSC_RE
OscReceived(e) == e.type = "onmessage" /\ PayloadsFrom(e.data, 1) # <<>>
\* the step just taken delivered a chunk in which no OSC was found
PlainChunk(e) == e.type = "onmessage" /\ PayloadsFrom(e.data, 1) = <<>>
EnterPressed(e) == e.type = "onData" /\ Contains(e.data, Enter)
\* a re-injection is what the step just taken wrote to the PTY
Reinjected(writes) == writes = injectShellIntegration(TRUE)
Timers(hs) == <<hs.checkTimer, hs.quietTimer, hs.verificationTimer>>

\* C16: the re-injection counter never exceeds 3; every re-injection written
\* is counted, so at most 3 are written between two OSC receptions; with the
\* counter at 3 neither an Enter nor a chunk without OSC arms a timer; a
\* chunk with an OSC resets the counter to 0.
C16_ReinjectionCap ==
  [][/\ hookStates'.reinjectionCount <= MaxReinjections
     /\ Reinjected(ptyWrites') =>
          /\ hookStates.reinjectionCount < MaxReinjections
          /\ hookStates'.reinjectionCount = hookStates.reinjectionCount + 1
     /\ ~Reinjected(ptyWrites') /\ ~OscReceived(hookEvent') =>
          hookStates'.reinjectionCount = hookStates.reinjectionCount
     /\ hookStates.reinjectionCount = MaxReinjections
          /\ (EnterPressed(hookEvent') \/ PlainChunk(hookEvent')) =>
          /\ Timers(hookStates') = Timers(hookStates)
          /\ hookStates'.awaitingOsc = hookStates.awaitingOsc
     /\ OscReceived(hookEvent') => hookStates'.reinjectionCount = 0]_vars

\* the cap was reached, the verification window is over and Enter is pressed
C16_Witness ==
  /\ hookStates.reinjectionCount = MaxReinjections
  /\ hookStates.commandRunning
  /\ ~hookStates.reinjectionAttempted
  /\ hookStates.sincePreexec >= MinRunning
  /\ EnterPressed(hookEvent)

\* C17: a chunk with an OSC leaves no detection timer pending (Enter-wait,
\* quiet-output, verification) and no Enter-wait open; a re-injection is
\* written only by the callback of a timer that was pending and due, so
\* none is written by a timer armed before the OSC.
C17_OscCancelsTimers ==
  [][/\ OscReceived(hookEvent') =>
          /\ \A n \in TimerNames : hookStates'[n] = NoTimer
          /\ ~hookStates'.awaitingOsc
          /\ ~Reinjected(ptyWrites')
     /\ Reinjected(ptyWrites') =>
          /\ hookEvent'.type \in {"checkTimer", "quietTimer"}
          /\ hookStates[hookEvent'.type] = Timer(0)]_vars

\* an OSC arrived while the quiet timer and the verification timer were pending
C17_Witness ==
  /\ OscReceived(hookEvent)
  /\ hookEvent.cleared = {"quietTimer", "verificationTimer"}
  /\ \A n \in TimerNames : hookStates[n] = NoTimer

\* the Enter-wait is open: awaitingOsc is set and checkTimer has 500 ms to run
EnterWaitArmed(hs) == hs.awaitingOsc /\ hs.checkTimer = Timer(CheckDelay)
ArmsNothing(before, after) ==
  Timers(after) = Timers(before) /\ after.awaitingOsc = before.awaitingOsc

\* C18 as stated: an Enter while a command is running, 2 s or more after the
\* last preexec, opens the 500 ms Enter-wait; an OSC closes it without a
\* re-injection; the timer that fires writes exactly one re-injection; an
\* Enter while no command is running or less than 2 s after preexec arms
\* nothing.
C18_EnterDetector ==
  [][/\ EnterPressed(hookEvent') /\ hookStates.commandRunning
          /\ hookStates.sincePreexec >= MinRunning =>
          EnterWaitArmed(hookStates')
     /\ OscReceived(hookEvent') =>
          /\ hookStates'.checkTimer = NoTimer
          /\ ~hookStates'.awaitingOsc
          /\ ~Reinjected(ptyWrites')
     /\ hookEvent'.type = "checkTimer" => Reinjected(ptyWrites')
     /\ EnterPressed(hookEvent')
          /\ (~hookStates.commandRunning \/ hookStates.sincePreexec < MinRunning) =>
          ArmsNothing(hookStates, hookStates')]_vars

\* C18 amended: the Enter-wait opens only if, besides, fewer than 3
\* re-injections were attempted since the last OSC and none is waiting for
\* its verification; every other Enter arms nothing.
C18_EnterDetectorGuarded ==
  [][/\ EnterPressed(hookEvent') /\ MayDetect(hookStates) =>
          /\ EnterWaitArmed(hookStates')
          /\ hookStates'.quietTimer = NoTimer
     /\ OscReceived(hookEvent') =>
          /\ hookStates'.checkTimer = NoTimer
          /\ ~hookStates'.awaitingOsc
          /\ ~Reinjected(ptyWrites')
     /\ hookEvent'.type = "checkTimer" =>
          /\ hookStates.awaitingOsc
          /\ Reinjected(ptyWrites')
     /\ EnterPressed(hookEvent') /\ ~MayDetect(hookStates) =>
          ArmsNothing(hookStates, hookStates')
     /\ hookEvent'.type = "onData" => ~Reinjected(ptyWrites')]_vars

\* the Enter-wait ran out without an OSC and the re-injection was written
C18_Witness ==
  /\ hookEvent.type = "checkTimer"
  /\ Reinjected(ptyWrites)
  /\ hookStates.reinjectionCount = 1

\* the step just taken delivered a chunk without OSC that ends like a prompt
PromptSeen(e) == PlainChunk(e) /\ looksLikeShellPrompt(e.data)

\* C19 as stated: a prompt-like chunk without OSC, with a command running
\* for 2 s or more and fewer than 3 attempts made, (re)starts the 1.5 s
\* quiet timer; the timer that fires, not cancelled by an OSC or an Enter,
\* writes the re-injection: the notice, then the hook script, no clear.
C19_QuietDetector ==
  [][/\ PromptSeen(hookEvent') /\ hookStates.commandRunning
          /\ hookStates.sincePreexec >= MinRunning
          /\ hookStates.reinjectionCount < MaxReinjections =>
          hookStates'.quietTimer = Timer(QuietDelay)
     /\ hookEvent'.type = "quietTimer" =>
          ptyWrites' = << <<Notice, HookScript>> >>]_vars

\* C19 amended: the quiet timer is (re)started only if, besides, no
\* re-injection is waiting for its verification; an OSC or an Enter that
\* opens the Enter-wait cancels it; the timer that fires writes the
\* re-injection (notice, hook script, no clear) unless another re-injection
\* was written since the chunk, and only a re-injection can come between.
C19_QuietDetectorGuarded ==
  [][/\ PromptSeen(hookEvent') /\ MayDetect(hookStates) =>
          hookStates'.quietTimer = Timer(QuietDelay)
     /\ PlainChunk(hookEvent') /\ ~(PromptSeen(hookEvent') /\ MayDetect(hookStates)) =>
          hookStates'.quietTimer = hookStates.quietTimer
     /\ OscReceived(hookEvent') \/ (EnterPressed(hookEvent') /\ MayDetect(hookStates)) =>
          hookStates'.quietTimer = NoTimer
     /\ hookEvent'.type = "quietTimer" /\ ~hookStates.reinjectionAttempted =>
          /\ hookStates.commandRunning
          /\ ptyWrites' = << <<Notice, HookScript>> >>
     /\ hookEvent'.type = "quietTimer" /\ hookStates.reinjectionAttempted =>
          ptyWrites' = <<>>
     /\ hookStates.quietTimer # NoTimer /\ ~hookStates.reinjectionAttempted
          /\ hookStates'.reinjectionAttempted =>
          Reinjected(ptyWrites')]_vars

\* the quiet timer ran out and the re-injection was written
C19_Witness ==
  /\ hookEvent.type = "quietTimer"
  /\ ptyWrites = << <<Notice, HookScript>> >>
  /\ hookStates.verificationTimer = Timer(VerifyDelay)

\* --- the panes (SpecBridge)
\* the bytes the write batch of a terminal wrote to its emulator
RECURSIVE BatchBytes(_)
BatchBytes(writes) ==
  IF writes = <<>> THEN <<>>
  ELSE (IF Head(writes).by = "batch" THEN Head(writes).data ELSE <<>>)
         \o BatchBytes(Tail(writes))
\* the bytes terminal t may print
BytesOfTerminal(t) ==
  {TerminalChars[t]} \cup {DigitChars[d] : d \in 1..Len(DigitChars)}

\* C21: for a terminal that is not disposed, what the batch wrote to the
\* emulator followed by what waits in the buffer is the concatenation of
\* the cleaned chunks in arrival order, and what waits has a frame
\* requested; at most one frame is requested per terminal; a bulk write
\* holds bytes of its own terminal only.
C21_BatchedOutput ==
  \A t \in DOMAIN bridge.xtermWrites :
    /\ t \notin bridge.disposed =>
         /\ BatchBytes(bridge.xtermWrites[t]) \o bridge.writeBuffers[t]
              = bridge.cleanedChunks[t]
         /\ bridge.writeBuffers[t] # <<>> => t \in bridge.writeRafs
    /\ bridge.rafCallbacks[t] <= 1
    /\ bridge.rafCallbacks[t] = 1 <=> t \in bridge.writeRafs
    /\ \A i \in 1..Len(bridge.xtermWrites[t]) :
         bridge.xtermWrites[t][i].by = "batch" =>
           \A j \in 1..Len(bridge.xtermWrites[t][i].data) :
             bridge.xtermWrites[t][i].data[j] \in BytesOfTerminal(t)

\* every terminal received all its chunks, in two bulk writes or in one
C21_Witness ==
  /\ \A t \in BridgeTids :
       /\ t \in DOMAIN bridge.xtermWrites
       /\ t \notin bridge.disposed
       /\ bridge.delivered[t] = MaxChunks
       /\ bridge.writeBuffers[t] = <<>>
       /\ BatchBytes(bridge.xtermWrites[t]) = bridge.cleanedChunks[t]
  /\ Len(bridge.xtermWrites[1]) = 1
  /\ Len(bridge.xtermWrites[MaxPanes]) > 1

\* C22: createPty is called at most once per terminal, however often its
\* pane is mounted and unmounted, and an instance, with what its emulator
\* received, stays until the terminal is disposed.
C22_OnePtyPerTerminal ==
  [][\A t \in DOMAIN bridge.createCalls :
       /\ bridge'.createCalls[t] <= 1
       /\ t \in bridge.instances /\ t \notin bridge'.disposed =>
            /\ t \in bridge'.instances
            /\ Len(bridge'.xtermWrites[t]) >= Len(bridge.xtermWrites[t])
            /\ SubSeq(bridge'.xtermWrites[t], 1, Len(bridge.xtermWrites[t]))
                 = bridge.xtermWrites[t]
            /\ bridge'.createCalls[t] >= bridge.createCalls[t]]_vars

\* a pane mounted for the second time, its PTY created on the first, with
\* output on its emulator
C22_Witness ==
  \E t \in DOMAIN bridge.mounts :
    /\ bridge.mounts[t] = MaxMounts
    /\ t \in bridge.mounted
    /\ t \notin bridge.mountRafs
    /\ bridge.createCalls[t] = 1
    /\ bridge.xtermWrites[t] # <<>>

\* C23: once createPty has failed for a terminal, the stores hold no
\* session of it, no layout with it as key or leaf and no tree node of it.
C23_SpawnFailureRollsBack ==
  \A t \in bridge.failed :
    /\ ~Has(sessions, t)
    /\ \A k \in DOMAIN layouts : k # t /\ t \notin Leaves(k)
    /\ \A n \in DOMAIN nodes : nodes[n].terminalId # t

\* t is the only pane of project p: p has one tab, whose layout is the leaf t
OnlyPaneOf(p, t) ==
  /\ Has(projects, p)
  /\ Has(nodes, projects[p].rootGroupId)
  /\ Len(RootChildren(Snapshot, p)) = 1
  /\ Has(nodes, RootChildren(Snapshot, p)[1])
  /\ nodes[RootChildren(Snapshot, p)[1]].type = "terminal"
  /\ nodes[RootChildren(Snapshot, p)[1]].terminalId = t
  /\ Has(layouts, t)
  /\ LeafSeq(t) = <<t>>

\* C24: a close of the only pane of a project removes the project and its
\* root group; if it was the only project, activeTerminalId and
\* activeProjectId are null afterwards.
C24_CloseLastPaneDeletesProject ==
  [][\A p \in DOMAIN projects : \A t \in PaneTargets :
       OnlyPaneOf(p, t) /\ HasActiveProject(Snapshot)
         /\ IsRun(handleClosePane(Snapshot, t)) =>
         /\ ~Has(projects', p)
         /\ ~Has(nodes', projects[p].rootGroupId)
         /\ DOMAIN projects = {p} =>
              activeTerminalId' = Null /\ activeProjectId' = Null]_vars

\* the terminalIds of the tab nodes under the root group of project p
TabsOf(p) ==
  {nodes[RootChildren(Snapshot, p)[i]].terminalId :
     i \in {j \in 1..Len(RootChildren(Snapshot, p)) :
              /\ Has(nodes, RootChildren(Snapshot, p)[j])
              /\ nodes[RootChildren(Snapshot, p)[j]].type = "terminal"}}
\* the panes of project p: the leaves of the layouts keyed by its tabs
PanesOf(p) == UNION {Leaves(k) : k \in TabsOf(p) \cap DOMAIN layouts}

\* C25: after handleDeleteProject(p) the project, its root group and the
\* nodes under it are gone, no layout is keyed by one of its tabs and no
\* pane of those layouts, split panes included, has a session.
C25_DeleteProjectCleansAll ==
  \A p \in DOMAIN projects :
    LET after == Last(handleDeleteProject(Snapshot, p))
        root  == projects[p].rootGroupId
    IN /\ ~Has(after.projects, p)
       /\ ~Contains(after.projectOrder, p)
       /\ ~Has(after.nodes, root)
       /\ \A n \in DOMAIN nodes : nodes[n].parentId = root => ~Has(after.nodes, n)
       /\ \A i \in 1..Len(RootChildren(Snapshot, p)) :
            ~Has(after.nodes, RootChildren(Snapshot, p)[i])
       /\ \A k \in TabsOf(p) : ~Has(after.layouts, k)
       /\ \A t \in PanesOf(p) : ~Has(after.sessions, t)

\* one of two projects has a tab that was split: deleting it must remove
\* the sessions of the tab and of its split pane
C25_Witness ==
  /\ Cardinality(DOMAIN projects) >= 2
  /\ \E p \in DOMAIN projects : \E k \in TabsOf(p) :
       /\ Has(layouts, k)
       /\ Len(LeafSeq(k)) >= 2
       /\ \A t \in Leaves(k) : Has(sessions, t)

\* C26: handleMoveTerminal of a tab of project from to project to takes
\* the tab's node out of the children of from's root group, appends it to
\* the children of to's root group and sets its parentId; every other node,
\* the sessions, the layouts and activeTerminalId are unchanged.
C26_MoveChangesTreeOnly ==
  \A from \in DOMAIN projects, to \in DOMAIN projects :
    \A i \in SidebarTabs(from) :
      from # to =>
        LET n        == SidebarTabNode(from, i)
            fromRoot == projects[from].rootGroupId
            toRoot   == projects[to].rootGroupId
            after    == Last(handleMoveTerminal(Snapshot, nodes[n].terminalId, from, to))
        IN /\ Has(after.nodes, fromRoot) /\ Has(after.nodes, toRoot)
           /\ Has(nodes, toRoot)
           /\ after.nodes[fromRoot].children = Without(nodes[fromRoot].children, n)
           /\ after.nodes[toRoot].children = Append(nodes[toRoot].children, n)
           /\ after.nodes[n] = [nodes[n] EXCEPT !.parentId = toRoot]
           /\ DOMAIN after.nodes = DOMAIN nodes
           /\ \A m \in DOMAIN nodes \ {n, fromRoot, toRoot} : after.nodes[m] = nodes[m]
           /\ after.nodes[fromRoot] =
                [nodes[fromRoot] EXCEPT !.children = Without(nodes[fromRoot].children, n)]
           /\ after.nodes[toRoot] =
                [nodes[toRoot] EXCEPT !.children = Append(nodes[toRoot].children, n)]
           /\ after.sessions = sessions
           /\ after.layouts = layouts
           /\ after.activeTerminalId = activeTerminalId
           /\ after.projects = projects

\* a tab with a split pane can be moved to another project
C26_Witness ==
  \E from \in DOMAIN projects, to \in DOMAIN projects :
    \E i \in SidebarTabs(from) :
      /\ from # to
      /\ Has(layouts, nodes[SidebarTabNode(from, i)].terminalId)
      /\ Len(LeafSeq(nodes[SidebarTabNode(from, i)].terminalId)) >= 2
      /\ Len(RootChildren(Snapshot, to)) >= 1

Count(seq, e) == Cardinality({i \in 1..Len(seq) : seq[i] = e})

\* C27: a split of a pane adds one session, the one of the new terminal,
\* and one leaf, in the layout that holds the pane; the other layouts and
\* the nodes, so the children of every group, are unchanged; a split of a
\* terminal that is in no layout changes nothing.
C27_SplitAddsSessionAndLeafOnly ==
  \A d \in Directions :
    /\ \A t \in PaneTargets :
         LET k     == findLayoutKeyForTerminal(layouts, t)
             new   == nextTerminalId
             after == Last(handleSplitPane(Snapshot, t, d, new))
         IN k # Null =>
              /\ DOMAIN after.sessions = DOMAIN sessions \cup {new}
              /\ new \notin DOMAIN sessions
              /\ \A u \in DOMAIN sessions : after.sessions[u] = sessions[u]
              /\ DOMAIN after.layouts = DOMAIN layouts
              /\ \A j \in DOMAIN layouts \ {k} : after.layouts[j] = layouts[j]
              /\ Len(findTerminalIds(after.layouts[k])) = Len(LeafSeq(k)) + 1
              /\ Count(findTerminalIds(after.layouts[k]), new) = 1
              /\ \A u \in Leaves(k) :
                   Count(findTerminalIds(after.layouts[k]), u) = Count(LeafSeq(k), u)
              /\ after.nodes = nodes
              /\ after.projects = projects
    /\ \A t \in TerminalIds :
         findLayoutKeyForTerminal(layouts, t) = Null =>
           handleSplitPane(Snapshot, t, d, nextTerminalId) = <<Snapshot>>

\* a pane of a tab that is already split can be split again, while a
\* terminal that was closed is in no layout
C27_Witness ==
  /\ \E t \in PaneTargets :
       /\ findLayoutKeyForTerminal(layouts, t) # Null
       /\ Len(LeafSeq(findLayoutKeyForTerminal(layouts, t))) >= 2
  /\ \E t \in TerminalIds :
       t < nextTerminalId /\ findLayoutKeyForTerminal(layouts, t) = Null

\* ---------------------------------------------------------------------------
\* C28: splitTerminal(k, t, n, d) with a new terminal id n, followed by
\* removeTerminal(k, n), leaves the layout as it was before the split: the
\* same tree shape, leaves, directions and ratios (and no layout at k when
\* there was none).
C28_SplitThenRemoveRestores ==
  \A k \in LayoutIds, t \in LayoutIds, d \in Directions :
    LET n       == nextTerminalId
        split   == splitTerminal(Snapshot, k, t, n, d)
        removed == removeTerminal(split, k, n)
    IN removed.layouts = layouts

\* a nested layout with a dragged divider, one of whose panes is split
C28_Witness ==
  \E k \in DOMAIN layouts, t \in LayoutIds :
    /\ layouts[k].type = "split"
    /\ layouts[k].ratio = ResizedRatio
    /\ layouts[k].first.type = "split"
    /\ splitTerminal(Snapshot, k, t, nextTerminalId, "vertical").layouts # layouts

\* C29: for every layout tree root, target t, new terminal id n and direction
\* d, findTerminalIds(splitAtTerminal(root, t, n, d)) is findTerminalIds(root)
\* with n inserted exactly once.
InsertedOnce(before, after, n) ==
  \E at \in 0..Len(before) : after = Splice(before, at, n)

NewIds == 1..(MaxLayoutIds + 1)

C29_SplitInsertsOnce ==
  \A k \in DOMAIN layouts, t \in LayoutIds, n \in NewIds, d \in Directions :
    InsertedOnce(findTerminalIds(layouts[k]),
                 findTerminalIds(splitAtTerminal(layouts[k], t, n, d)), n)

\* C29 as the code has it: n is inserted once, right after t, when t is a
\* leaf of root; a target that is not a leaf of root leaves the tree as it is.
C29_SplitInsertsOnceAtTarget ==
  \A k \in DOMAIN layouts, t \in LayoutIds, n \in NewIds, d \in Directions :
    LET root   == layouts[k]
        before == findTerminalIds(root)
        after  == splitAtTerminal(root, t, n, d)
    IN IF Contains(before, t)
       THEN findTerminalIds(after) = Splice(before, IndexOf(before, t), n)
       ELSE after = root

\* a layout of several panes whose target is not the root of the tree
C29_Witness ==
  \E k \in DOMAIN layouts, t \in LayoutIds :
    /\ Len(findTerminalIds(layouts[k])) = MaxLayoutIds
    /\ Contains(findTerminalIds(layouts[k]), t)
    /\ IndexOf(findTerminalIds(layouts[k]), t) < MaxLayoutIds

\* C30: findLayoutKeyForTerminal(layouts, tid) returns tid exactly when tid
\* is a layout key; otherwise it returns the one key whose tree contains tid,
\* or null when no tree contains it.
KeysHolding(tid) ==
  {k \in DOMAIN layouts : Contains(findTerminalIds(layouts[k]), tid)}

C30_LayoutKeyLookup ==
  \A tid \in LayoutIds :
    LET key == findLayoutKeyForTerminal(layouts, tid)
    IN /\ (key = tid) <=> Has(layouts, tid)
       /\ ~Has(layouts, tid) =>
            IF KeysHolding(tid) = {} THEN key = Null ELSE KeysHolding(tid) = {key}

\* two layouts, and a pane that is found in the tree of the second one
C30_Witness ==
  \E tid \in LayoutIds, k \in DOMAIN layouts :
    /\ ~Has(layouts, tid)
    /\ KeysHolding(tid) = {k}
    /\ \E other \in DOMAIN layouts : other < k

\* ---------------------------------------------------------------------------
\* C31: removeSession(id) of the active terminal makes the last remaining
\* session in insertion order the active terminal, or none when no session
\* remains; removeSession(id) of another terminal leaves activeTerminalId as
\* it is; addSession(id) makes id the active terminal.
\* Sessions are inserted in the order their ids are generated, so the last
\* remaining key is the remaining session created last.
LastInserted(ids) ==
  IF ids = {} THEN Null ELSE CHOOSE x \in ids : \A y \in ids : y <= x

C31_ActiveTerminalFallback ==
  /\ \A id \in TerminalIds :
       LET after == removeSession(Snapshot, id)
       IN /\ DOMAIN after.sessions = DOMAIN sessions \ {id}
          /\ after.activeTerminalId =
               IF activeTerminalId = id THEN LastInserted(DOMAIN sessions \ {id})
               ELSE activeTerminalId
  /\ \A id \in 1..(MaxTerminals + 1) :
       addSession(Snapshot, id).activeTerminalId = id

\* the active terminal is the oldest of three sessions
C31_Witness ==
  /\ Cardinality(DOMAIN sessions) = MaxTerminals
  /\ activeTerminalId \in DOMAIN sessions
  /\ \A id \in DOMAIN sessions : activeTerminalId <= id

\* ---------------------------------------------------------------------------
\* C32: after any setRatio call the ratio of every split node lies in
\* [0.1, 0.9]: a ratio out of that range is clamped, and only the split node
\* with the given id changes.  setRatio is called by the divider's
\* handleMouseMove alone, which does the clamping.
RECURSIVE RatiosOf(_)
RatiosOf(root) ==
  IF root.type = "terminal" THEN {}
  ELSE {root.ratio} \cup RatiosOf(root.first) \cup RatiosOf(root.second)

RECURSIVE RatioAt(_, _)
RatioAt(root, splitId) ==
  IF splitId = <<>> THEN root.ratio
  ELSE IF Head(splitId) = "first" THEN RatioAt(root.first, Tail(splitId))
  ELSE RatioAt(root.second, Tail(splitId))

SavedNotes == {"", "n"}

\* what the store may have saved: the sessions as they are, with the notes
\* given, or without the notes field
SavedWith(notes) ==
  [Snapshot EXCEPT !.sessions =
     [id \in DOMAIN sessions |-> [sessions[id] EXCEPT !.notes = notes]]]
SavedWithoutNotes ==
  [Snapshot EXCEPT !.sessions =
     [id \in DOMAIN sessions |->
        [status |-> sessions[id].status, exitCode |-> sessions[id].exitCode]]]

RestoredDone(restored) ==
  \A id \in DOMAIN restored.sessions :
    /\ restored.sessions[id].status = "done"
    /\ restored.sessions[id].exitCode = NoExitCode
    /\ \A msgData \in Segments :
         LET run == chunkRun(restored, id, <<>>, <<>>, <<>>, msgData)
         IN (\E i \in 1..Len(run) : run[i].S.sessions[id].status = "running")
              => Contains(PayloadsFrom(msgData, 1), PreexecPayload)

C33_RestartResetsSessions ==
  /\ \A notes \in SavedNotes :
       LET restored == Last(rehydrate(SavedWith(notes), TRUE))
       IN /\ DOMAIN restored.sessions = DOMAIN sessions
          /\ RestoredDone(restored)
          /\ \A id \in DOMAIN sessions : restored.sessions[id].notes = notes
  /\ LET restored == Last(rehydrate(SavedWithoutNotes, TRUE))
     IN /\ DOMAIN restored.sessions = DOMAIN sessions
        /\ RestoredDone(restored)
        /\ \A id \in DOMAIN sessions :
             /\ "notes" \in DOMAIN restored.sessions[id]
             /\ restored.sessions[id].notes = ""

\* the application stops while a command runs, or after one failed
C33_Witness ==
  /\ sessions[ChannelTid].status = "error"
  /\ sessions[ChannelTid].exitCode = <<1>>
  /\ fed = Len(stream)

\* ---------------------------------------------------------------------------
\* C34: the quiet timer fires only when the output has settled: a
\* re-injection by the quiet-output detector is written only if no chunk at
\* all arrived from the PTY during the QuietDelay ms before it.
C34_QuietMeansNoData ==
  [][hookEvent'.type = "quietTimer" /\ Reinjected(ptyWrites')
       => hookEvent.quiet >= QuietDelay]_vars

\* C39: between two consecutive re-injection writes with no OSC received in
\* between at least VerifyDelay ms (3 s) pass, whichever detector writes them
\* and however key presses, chunks and timer expiries interleave.
C39_InjectionsApart ==
  [][Reinjected(ptyWrites') => hookEvent.sinceInject >= VerifyDelay]_vars

\* a second re-injection was written with no OSC since the first
C39_Witness ==
  /\ Reinjected(ptyWrites)
  /\ hookStates.reinjectionCount = 2

\* ---------------------------------------------------------------------------
\* C35: reorderProject(p, t, position) with p # t and t in projectOrder puts
\* p immediately before (or after) t and keeps the order of all the other
\* projects; reorderChild does the same with the children of a group; with
\* p = t, or t not in the list, the state stays as it is.
\* The project half is checked for every order of up to MaxProjects + 1
\* projects, the children half for the groups of the state.
Placed(before, after, moved, target, position) ==
  /\ Without(after, moved) = Without(before, moved)
  /\ Len(after) = Len(Without(before, moved)) + 1
  /\ IndexOf(after, moved) # 0
  /\ IndexOf(after, moved) =
       IF position = "before" THEN IndexOf(after, target) - 1
       ELSE IndexOf(after, target) + 1

OrderedIds == 1..(MaxProjects + 1)
ProjectOrders ==
  {order \in UNION {[1..n -> OrderedIds] : n \in 0..(MaxProjects + 1)} :
     \A i \in 1..Len(order), j \in 1..Len(order) : i # j => order[i] # order[j]}

C35_ReorderPlaces ==
  /\ \A order \in ProjectOrders \cup {projectOrder} :
       \A p \in OrderedIds, t \in OrderedIds, position \in Positions :
         LET S     == [Snapshot EXCEPT !.projectOrder = order]
             after == reorderProject(S, p, t, position)
         IN IF p # t /\ Contains(order, t)
            THEN /\ Placed(order, after.projectOrder, p, t, position)
                 /\ [after EXCEPT !.projectOrder = order] = S
            ELSE after = S
  /\ \A g \in DOMAIN nodes, c \in DOMAIN nodes \cup {NoNode}, t \in DOMAIN nodes \cup {NoNode},
        position \in Positions :
       LET after == reorderChild(Snapshot, g, c, t, position)
       IN IF c # t /\ Contains(nodes[g].children, t)
          THEN /\ Placed(nodes[g].children, after.nodes[g].children, c, t, position)
               /\ [after EXCEPT !.nodes[g].children = nodes[g].children] = Snapshot
          ELSE after = Snapshot

\* both lists were reordered: the projects, and three tabs of one project
C35_Witness ==
  /\ projectOrder = <<2, 1>>
  /\ \E g \in DOMAIN nodes :
       /\ Len(nodes[g].children) = MaxTerminals
       /\ \E i \in 1..(MaxTerminals - 1) :
            nodes[nodes[g].children[i]].terminalId > nodes[nodes[g].children[i + 1]].terminalId

\* ---------------------------------------------------------------------------
\* C36: a close of a tab-root pane removes the tab's tree node whichever
\* project is active: afterwards no terminal node refers to the closed
\* terminal, and the project that owned the tab is gone when it has no tab
\* left, also when it is not the active project.
C36_CloseTabRootRemovesNode ==
  [][\A p \in DOMAIN projects : \A t \in PaneTargets :
       /\ HasActiveProject(Snapshot)
       /\ Has(layouts, t)
       /\ t \in TabsOf(p)
       /\ IsRun(handleClosePane(Snapshot, t))
       => /\ \A n \in DOMAIN nodes' : nodes'[n].terminalId # t
          /\ TabsOf(p) = {t} => ~Has(projects', p)]_vars

\* ---------------------------------------------------------------------------
\* C37: whenever there is an active terminal and an active project, the tab
\* that contains the active terminal is a child of the active project's root
\* group.
C37_ActiveTerminalInActiveProject ==
  activeTerminalId # Null /\ activeProjectId # Null =>
    /\ Has(projects, activeProjectId)
    /\ Has(nodes, projects[activeProjectId].rootGroupId)
    /\ findLayoutKeyForTerminal(layouts, activeTerminalId) \in TabsOf(activeProjectId)

\* C38: no orphans: after every completed operation every session id is a
\* leaf of exactly one layout, and every layout key is the terminalId of
\* exactly one tab node of the tree.
C38_NoOrphans ==
  /\ \A id \in DOMAIN sessions :
       Cardinality({k \in DOMAIN layouts : id \in Leaves(k)}) = 1
  /\ \A k \in DOMAIN layouts :
       Cardinality({n \in DOMAIN nodes :
                      nodes[n].type = "terminal" /\ nodes[n].terminalId = k}) = 1

\* one split tab is left after another terminal was created and closed
C38_Witness ==
  /\ DOMAIN layouts # {}
  /\ \A k \in DOMAIN layouts : Len(LeafSeq(k)) = 2
  /\ Cardinality(DOMAIN sessions) = 2
  /\ nextTerminalId = MaxTerminals + 1

\* ---------------------------------------------------------------------------
\* C40: after disposeTerminalInstance(id) the processor state of id (hook
\* state, OSC partial, write buffer, pending flush) is gone and stays gone:
\* a chunk delivered late for the closed terminal brings none of it back,
\* and nothing is written to the emulator of id afterwards.
C40_DisposedStaysGone ==
  [][\A t \in BridgeTids :
       t \in bridge.disposed =>
         /\ t \notin bridge'.hookStates
         /\ bridge'.oscPartials[t] = <<>>
         /\ bridge'.writeBuffers[t] = <<>>
         /\ t \notin bridge'.writeRafs
         /\ bridge'.xtermWrites[t] = bridge.xtermWrites[t]]_vars

====
